---- MODULE Spec2Model ----
(***************************************************************************)
(* Model of the multi-tenant SQL execution layer of sqlplus:               *)
(* src/lib/sql-executor.ts (validateUserSchemaAccess, executeUserQuery).   *)
(*                                                                         *)
(* Query texts are TLA+ strings; the regular expressions of the source are *)
(* evaluated character by character by the matcher below.                  *)
(***************************************************************************)
EXTENDS Integers, Sequences, FiniteSets, TLC

(***************************************************************************)
(* Bound of the model: the statements, joined by ';', of a submitted query *)
(* made of plain statements only.                                          *)
(***************************************************************************)
MaxStmts == 3

(***************************************************************************)
(* JavaScript string primitives.                                           *)
(***************************************************************************)
Ch(s, i) == SubSeq(s, i, i)

LowerAlpha == "abcdefghijklmnopqrstuvwxyz"
UpperAlpha == "ABCDEFGHIJKLMNOPQRSTUVWXYZ"
DigitAlpha == "0123456789"

LowerChars == {Ch(LowerAlpha, i) : i \in 1..26}
UpperChars == {Ch(UpperAlpha, i) : i \in 1..26}
DigitChars == {Ch(DigitAlpha, i) : i \in 1..10}

\* \w of a JavaScript regular expression
WordChars == LowerChars \cup UpperChars \cup DigitChars \cup {"_"}

\* \s of a JavaScript regular expression (the white space the model writes)
SpaceChars == {" ", "\n", "\t"}

LowerOf == [c \in UpperChars |-> Ch(LowerAlpha, CHOOSE i \in 1..26 : Ch(UpperAlpha, i) = c)]
UpperOf == [c \in LowerChars |-> Ch(UpperAlpha, CHOOSE i \in 1..26 : Ch(LowerAlpha, i) = c)]

\* the characters lo..hi of s, each replaced by its image under f if it has one
RECURSIVE MapChars(_, _, _, _)
MapChars(f, s, lo, hi) ==
    IF lo > hi THEN ""
    ELSE IF lo = hi THEN (IF Ch(s, lo) \in DOMAIN f THEN f[Ch(s, lo)] ELSE Ch(s, lo))
    ELSE MapChars(f, s, lo, (lo + hi) \div 2) \o MapChars(f, s, ((lo + hi) \div 2) + 1, hi)

\* String.prototype.toLowerCase / toUpperCase
toLowerCase(s) == MapChars(LowerOf, s, 1, Len(s))
toUpperCase(s) == MapChars(UpperOf, s, 1, Len(s))

\* the end (exclusive) of the longest run of characters, starting at i, that
\* are in chars (inside) or not in chars (~inside)
RunEnd(s, i, chars, inside) ==
    IF i > Len(s) THEN i
    ELSE CHOOSE e \in i..(Len(s) + 1) :
             /\ e > Len(s) \/ ((Ch(s, e) \in chars) # inside)
             /\ \A j \in i..(e - 1) : (Ch(s, j) \in chars) = inside

SkipSpace(s, i) == RunEnd(s, i, SpaceChars, TRUE)

\* the last position, at or before j, that holds no white space (0 if none)
SkipSpaceBack(s, j) ==
    IF j < 1 THEN 0
    ELSE CHOOSE e \in 0..j :
             /\ e = 0 \/ Ch(s, e) \notin SpaceChars
             /\ \A m \in (e + 1)..j : Ch(s, m) \in SpaceChars

\* String.prototype.trim
trim(s) == SubSeq(s, SkipSpace(s, 1), SkipSpaceBack(s, Len(s)))

\* s has the text lit at position i
HasAt(s, i, lit) ==
    /\ i + Len(lit) - 1 <= Len(s)
    /\ SubSeq(s, i, i + Len(lit) - 1) = lit

\* String.prototype.includes
includes(s, lit) == \E i \in 1..(Len(s) + 1) : HasAt(s, i, lit)

\* String.prototype.startsWith
startsWith(s, lit) == HasAt(s, 1, lit)

\* the first position, from p on, where s has the text lit (Len(s) + 1 if none)
NextAt(s, p, lit) ==
    IF p > Len(s) THEN Len(s) + 1
    ELSE CHOOSE e \in p..(Len(s) + 1) :
             /\ e > Len(s) \/ HasAt(s, e, lit)
             /\ \A j \in p..(e - 1) : ~HasAt(s, j, lit)

\* the end (exclusive) of the run of \w characters that starts at i
WordEnd(s, i) == RunEnd(s, i, WordChars, TRUE)

\* String(n) for the small numbers of the model
RECURSIVE NumStr(_)
NumStr(n) == IF n < 10 THEN Ch(DigitAlpha, n + 1) ELSE NumStr(n \div 10) \o Ch(DigitAlpha, (n % 10) + 1)

(***************************************************************************)
(* RegExp.prototype.test for the patterns of the source.  A pattern is a   *)
(* sequence of elements: Lit (a literal text), Ws0 (white space, zero or   *)
(* more), Ws1 (white space, one or more), Any (any characters, the dot     *)
(* star under the flag s), AnyLine (the same without the flag: no line     *)
(* break), Word1 (one or more word characters), Bound (a word boundary).   *)
(***************************************************************************)
Lit(t)  == [k |-> "lit", s |-> t]
Ws0     == [k |-> "ws0", s |-> ""]
Ws1     == [k |-> "ws1", s |-> ""]
DotAll  == [k |-> "dotall", s |-> ""]
DotLine == [k |-> "dotline", s |-> ""]
Word1   == [k |-> "word1", s |-> ""]
Bound   == [k |-> "bound", s |-> ""]

IsWordAt(s, i) == i >= 1 /\ i <= Len(s) /\ Ch(s, i) \in WordChars

RECURSIVE MatchFrom(_, _, _, _)
MatchFrom(pat, k, s, i) ==
    IF k > Len(pat) THEN TRUE
    ELSE LET e == pat[k] IN
         CASE e.k = "lit" ->
                  HasAt(s, i, e.s) /\ MatchFrom(pat, k + 1, s, i + Len(e.s))
           [] e.k = "ws0" ->
                  \E j \in i..SkipSpace(s, i) : MatchFrom(pat, k + 1, s, j)
           [] e.k = "ws1" ->
                  \E j \in (i + 1)..SkipSpace(s, i) : MatchFrom(pat, k + 1, s, j)
           [] e.k = "dotall" ->
                  \E j \in i..(Len(s) + 1) : MatchFrom(pat, k + 1, s, j)
           [] e.k = "dotline" ->
                  \E j \in i..(Len(s) + 1) :
                      /\ \A m \in i..(j - 1) : Ch(s, m) # "\n"
                      /\ MatchFrom(pat, k + 1, s, j)
           [] e.k = "word1" ->
                  \E j \in (i + 1)..WordEnd(s, i) : MatchFrom(pat, k + 1, s, j)
           [] e.k = "bound" ->
                  (IsWordAt(s, i - 1) # IsWordAt(s, i)) /\ MatchFrom(pat, k + 1, s, i)

\* pattern.test(s), case-sensitive
RegexTest(pat, s) == \E i \in 1..(Len(s) + 1) : MatchFrom(pat, 1, s, i)

LowerPattern(pat) == [n \in 1..Len(pat) |-> [k |-> pat[n].k, s |-> toLowerCase(pat[n].s)]]

\* pattern.test(s) under the flag i: both sides compared in lower case
RegexTestI(pat, s) ==
    RegexTest(LowerPattern(pat), toLowerCase(s))

\* a replacement that keeps the lower-case letters only and writes '-'
RECURSIVE SanitizeLowerOnly(_, _)
SanitizeLowerOnly(u, i) ==
    IF i > Len(u) THEN ""
    ELSE (IF Ch(u, i) \in LowerChars \cup {"_"} THEN Ch(u, i) ELSE "-")
             \o SanitizeLowerOnly(u, i + 1)

\* username.replace(/[^a-zA-Z0-9_]/g, '_')
RECURSIVE Sanitize(_, _)
Sanitize(u, i) ==
    IF i > Len(u) THEN ""
    ELSE (IF Ch(u, i) \in WordChars THEN Ch(u, i) ELSE "_") \o Sanitize(u, i + 1)

sanitizeSchemaName(u) == Sanitize(u, 1)

(***************************************************************************)
(* validateUserSchemaAccess (src/lib/sql-executor.ts:22-85).               *)
(***************************************************************************)
\* the first groups of the successive matches of /(\w+)\.(\w+)/g in s, from
\* position p on: the loop of schemaPattern.exec
RECURSIVE SchemaRefsFrom(_, _), SchemaRefsAtWord(_, _, _)
SchemaRefsFrom(s, p) ==
    IF p > Len(s) THEN <<>>
    ELSE IF ~IsWordAt(s, p) THEN SchemaRefsFrom(s, RunEnd(s, p, WordChars, FALSE))
    ELSE SchemaRefsAtWord(s, p, WordEnd(s, p))

\* the same, p being the start and e the end of a run of word characters
SchemaRefsAtWord(s, p, e) ==
    IF e <= Len(s) /\ Ch(s, e) = "." /\ IsWordAt(s, e + 1)
    THEN <<SubSeq(s, p, e - 1)>> \o SchemaRefsFrom(s, WordEnd(s, e + 1))
    ELSE SchemaRefsFrom(s, e)

\* the schemas a reference may name without being refused by the loop
AllowedReferencedSchemas(schemaName) == {schemaName, "public", "information_schema"}

\* the first referenced schema the loop refuses, "" when there is none
RECURSIVE FirstForeign(_, _, _)
FirstForeign(refs, n, schemaName) ==
    IF n > Len(refs) THEN ""
    ELSE IF refs[n] \notin AllowedReferencedSchemas(schemaName) THEN refs[n]
    ELSE FirstForeign(refs, n + 1, schemaName)

CatalogFilter(view, column, value) ==
    <<Lit(view), DotAll, Lit(column), Ws0, Lit("="), Ws0, Lit(value)>>

Quoted(name) == "'" \o name \o "'"

\* the patterns carry the flags i and s; the user name stands in the sixth
\* as the source text of a regular expression (the user names of the model
\* hold no character that is special there)
allowedSchemaQueries(schemaName, username) ==
    << CatalogFilter("information_schema.tables", "table_schema", Quoted(schemaName)),
       CatalogFilter("information_schema.columns", "table_schema", Quoted(schemaName)),
       CatalogFilter("information_schema.key_column_usage", "table_schema", Quoted(schemaName)),
       CatalogFilter("information_schema.table_constraints", "table_schema", Quoted(schemaName)),
       CatalogFilter("pg_tables", "schemaname", Quoted(schemaName)),
       CatalogFilter("pg_tables", "schemaname", Quoted(username)),
       CatalogFilter("information_schema.tables", "table_schema", "current_schema"),
       CatalogFilter("information_schema.columns", "table_schema", "current_schema") >>

\* /information_schema\.|pg_\w+/.test(cleanQuery)
MentionsCatalog(cleanQuery) ==
    \/ RegexTest(<<Lit("information_schema.")>>, cleanQuery)
    \/ RegexTest(<<Lit("pg_"), Word1>>, cleanQuery)

\* the additional check: information_schema.tables followed, on the same
\* line, by the quoted schema name
userSchemaTableQuery(schemaName) ==
    <<Lit("information_schema.tables"), DotLine, Lit(Quoted(schemaName))>>

\* allowedSchemaQueries.some(pattern => pattern.test(cleanQuery)), or the
\* additional check; low is cleanQuery in lower case (the flag i)
AllowedIn(low, schemaName, username) ==
    \/ \E n \in 1..Len(allowedSchemaQueries(schemaName, username)) :
           RegexTest(LowerPattern(allowedSchemaQueries(schemaName, username)[n]), low)
    \/ RegexTest(LowerPattern(userSchemaTableQuery(schemaName)), low)

CatalogAllowed(cleanQuery, schemaName, username) ==
    AllowedIn(toLowerCase(cleanQuery), schemaName, username)

\* /\bpublic\.\w+/.test(cleanQuery)
MentionsPublic(cleanQuery) == RegexTest(<<Bound, Lit("public."), Word1>>, cleanQuery)

validateUserSchemaAccess(query, username) ==
    LET cleanQuery == trim(toLowerCase(query))
        schemaName == toLowerCase(sanitizeSchemaName(username))
        foreign    == FirstForeign(SchemaRefsFrom(cleanQuery, 1), 1, schemaName)
    IN  IF foreign # ""
        THEN [isValid |-> FALSE,
              error |-> "Access denied: Cannot access schema '" \o foreign
                        \o "'. You can only access your own schema '" \o schemaName \o "'."]
        ELSE IF MentionsCatalog(cleanQuery) /\ ~CatalogAllowed(cleanQuery, schemaName, username)
        THEN [isValid |-> FALSE,
              error |-> "Access denied: You can only access your own schema information for privacy protection."]
        ELSE IF MentionsPublic(cleanQuery)
        THEN [isValid |-> FALSE,
              error |-> "Access denied: Cannot access public schema for privacy protection."]
        ELSE [isValid |-> TRUE, error |-> ""]

(***************************************************************************)
(* executeUserQuery, the checks before any database call                   *)
(* (src/lib/sql-executor.ts:89-147).                                       *)
(***************************************************************************)
QuoteChars == {"'", "\""}

\* the end (exclusive) of the run of [^'"] characters that starts at i
ValueEnd(s, i) == RunEnd(s, i, QuoteChars, FALSE)

\* a match of /schemaname\s*=\s*['"]([^'"]+)['"]/ that starts at p, where
\* the word schemaname stands: a is where the = must be, b the opening quote
\* and e the closing one
SchemaLiteralMatch(s, p, a, b, e) ==
    IF /\ a <= Len(s) /\ Ch(s, a) = "="
       /\ b <= Len(s) /\ Ch(s, b) \in QuoteChars
       /\ e > b + 1
       /\ e <= Len(s)
    THEN [ok |-> TRUE, val |-> SubSeq(s, b + 1, e - 1), next |-> e + 1]
    ELSE [ok |-> FALSE, val |-> "", next |-> p + 1]

SchemaLiteralAfterEq(s, p, a, b) == SchemaLiteralMatch(s, p, a, b, ValueEnd(s, b + 1))

SchemaLiteralAfterWord(s, p, a) == SchemaLiteralAfterEq(s, p, a, SkipSpace(s, a + 1))

SchemaLiteralAt(s, p) == SchemaLiteralAfterWord(s, p, SkipSpace(s, p + Len("schemaname")))

\* the first groups of cleanQuery.matchAll(schemaAccessPattern), from position
\* p on; low is s in lower case (the flag i)
RECURSIVE SchemaLiteralsFrom(_, _, _), SchemaLiteralsAt(_, _, _), SchemaLiteralsNext(_, _, _)
SchemaLiteralsFrom(s, low, p) == SchemaLiteralsAt(s, low, NextAt(low, p, "schemaname"))

\* the same, q being the next place of the word schemaname
SchemaLiteralsAt(s, low, q) ==
    IF q > Len(s) THEN <<>> ELSE SchemaLiteralsNext(s, low, SchemaLiteralAt(s, q))

\* the same, m being the outcome of the match tried there
SchemaLiteralsNext(s, low, m) ==
    (IF m.ok THEN <<m.val>> ELSE <<>>) \o SchemaLiteralsFrom(s, low, m.next)

\* the first requested schema that is not currentUserName, "" when none
RECURSIVE FirstOther(_, _, _)
FirstOther(vals, n, currentUserName) ==
    IF n > Len(vals) THEN ""
    ELSE IF vals[n] # currentUserName THEN vals[n]
    ELSE FirstOther(vals, n + 1, currentUserName)

dangerousPatterns ==
    << <<Lit("drop"), Ws1, Lit("database")>>,
       <<Lit("create"), Ws1, Lit("database")>>,
       <<Lit("drop"), Ws1, Lit("user")>>,
       <<Lit("create"), Ws1, Lit("user")>>,
       <<Lit("grant")>>,
       <<Lit("revoke")>>,
       <<Lit("pg_authid")>>,
       <<Lit("pg_shadow")>>,
       <<Lit("pg_user")>> >>

\* some pattern of dangerousPatterns matches; low is cleanQuery in lower
\* case (the flag i)
DangerousIn(low) ==
    \E n \in 1..Len(dangerousPatterns) : RegexTest(LowerPattern(dangerousPatterns[n]), low)

\* the test of the patterns without the flag i
IsDangerousCaseSensitive(cleanQuery) == DangerousIn(cleanQuery)

IsDangerous(cleanQuery) == DangerousIn(toLowerCase(cleanQuery))

\* the checks with validateUserSchemaAccess run ahead of the scan for the
\* schemaname literals
PreCheckValidatorFirst(username, query) ==
    LET cleanQuery      == trim(query)
        currentUserName == sanitizeSchemaName(username)
        other           == FirstOther(SchemaLiteralsFrom(cleanQuery, toLowerCase(cleanQuery), 1),
                                      1, currentUserName)
        validation      == validateUserSchemaAccess(cleanQuery, username)
    IN  IF cleanQuery = ""
        THEN [ok |-> FALSE, stage |-> "empty", error |-> "Empty query"]
        ELSE IF ~validation.isValid
        THEN [ok |-> FALSE, stage |-> "validator", error |-> validation.error]
        ELSE IF other # ""
        THEN [ok |-> FALSE, stage |-> "schemaname",
              error |-> "Access denied: You can only access your own schema '" \o currentUserName
                        \o "'. Attempted to access '" \o other \o "'."]
        ELSE IF IsDangerous(cleanQuery)
        THEN [ok |-> FALSE, stage |-> "dangerous",
              error |-> "Operation not allowed for security reasons"]
        ELSE [ok |-> TRUE, stage |-> "", error |-> ""]

\* the outcome of the checks: ok, or the failure result that is returned
PreCheck(username, query) ==
    LET cleanQuery      == trim(query)
        currentUserName == sanitizeSchemaName(username)
        other           == FirstOther(SchemaLiteralsFrom(cleanQuery, toLowerCase(cleanQuery), 1),
                                      1, currentUserName)
        validation      == validateUserSchemaAccess(cleanQuery, username)
    IN  IF cleanQuery = ""
        THEN [ok |-> FALSE, stage |-> "empty", error |-> "Empty query"]
        ELSE IF other # ""
        THEN [ok |-> FALSE, stage |-> "schemaname",
              error |-> "Access denied: You can only access your own schema '" \o currentUserName
                        \o "'. Attempted to access '" \o other \o "'."]
        ELSE IF ~validation.isValid
        THEN [ok |-> FALSE, stage |-> "validator", error |-> validation.error]
        ELSE IF IsDangerous(cleanQuery)
        THEN [ok |-> FALSE, stage |-> "dangerous",
              error |-> "Operation not allowed for security reasons"]
        ELSE [ok |-> TRUE, stage |-> "", error |-> ""]

(***************************************************************************)
(* executeUserQuery, the preparation of the statement list                 *)
(* (src/lib/sql-executor.ts:169-184).                                      *)
(***************************************************************************)
\* The backquote cannot be written in a TLA+ string: the model writes the
\* character as ^, so that ^^^ is a markdown code fence.
Fence == "^^^"

\* s.replace(/<lit>\s*/g, ''), low being the text the literal is looked up in
\* (s itself, or s in lower case under the flag i)
RECURSIVE RemoveAll(_, _, _, _), RemoveAt(_, _, _, _, _)
RemoveAll(s, low, lit, p) ==
    IF p > Len(s) THEN "" ELSE RemoveAt(s, low, lit, p, NextAt(low, p, lit))

\* the same, e being the next place of the literal
RemoveAt(s, low, lit, p, e) ==
    SubSeq(s, p, e - 1)
        \o (IF e > Len(s) THEN "" ELSE RemoveAll(s, low, lit, SkipSpace(s, e + Len(lit))))

RemoveFence(a) == RemoveAll(a, a, Fence, 1)

\* .replace(/```sql\s*/gi, '').replace(/```\s*/g, '')
RemoveFences(s) == RemoveFence(RemoveAll(s, toLowerCase(s), Fence \o "sql", 1))

aiPrefixes == <<"here's", "here is", "the sql query is", "sql query:">>

\* the alternative of the pattern that low begins with, 0 if none
FirstPrefix(low) ==
    IF HasAt(low, 1, aiPrefixes[1]) THEN 1
    ELSE IF HasAt(low, 1, aiPrefixes[2]) THEN 2
    ELSE IF HasAt(low, 1, aiPrefixes[3]) THEN 3
    ELSE IF HasAt(low, 1, aiPrefixes[4]) THEN 4
    ELSE 0

DropPrefix(s, n) == IF n = 0 THEN s ELSE SubSeq(s, Len(aiPrefixes[n]) + 1, Len(s))

\* s.replace(/^(here's|here is|the sql query is|sql query:)/i, '')
RemoveAiPrefix(s) == DropPrefix(s, FirstPrefix(toLowerCase(s)))

\* the first line break that only white space follows (Len(s) + 1 if none)
TrailingBreak(s) ==
    CHOOSE e \in 1..(Len(s) + 1) :
        /\ e > Len(s) \/ (Ch(s, e) = "\n" /\ SkipSpace(s, e) > Len(s))
        /\ \A j \in 1..(e - 1) : ~(Ch(s, j) = "\n" /\ SkipSpace(s, j) > Len(s))

\* s.replace(/\n\s*$/g, '')
RemoveTrailingBreak(s) == SubSeq(s, 1, TrailingBreak(s) - 1)

processQuery(cleanQuery) == RemoveTrailingBreak(RemoveAiPrefix(RemoveFences(cleanQuery)))

\* s.split(';'), from position p on
RECURSIVE SplitFrom(_, _), SplitAt(_, _, _)
SplitFrom(s, p) == SplitAt(s, p, NextAt(s, p, ";"))

\* the same, e being the place of the next semicolon
SplitAt(s, p, e) ==
    <<SubSeq(s, p, e - 1)>> \o (IF e > Len(s) THEN <<>> ELSE SplitFrom(s, e + 1))

\* pieces.map(q => q.trim()).filter(q => q.length > 0)
RECURSIVE TrimAndFilter(_, _)
TrimAndFilter(pieces, n) ==
    IF n > Len(pieces) THEN <<>>
    ELSE (IF trim(pieces[n]) = "" THEN <<>> ELSE <<trim(pieces[n])>>)
         \o TrimAndFilter(pieces, n + 1)

setPathCommand(schemaName) == "SET search_path TO \"" \o schemaName \o "\""

\* queryWithPath.split(';').map(...).filter(...)
splitQueries(schemaName, cleanQuery) ==
    LET queryWithPath == setPathCommand(schemaName) \o "; " \o processQuery(cleanQuery)
    IN  TrimAndFilter(SplitFrom(queryWithPath, 1), 1)

\* the text handed to the driver for one statement
queryToExecute(singleQuery) ==
    IF startsWith(toUpperCase(singleQuery), "SET") THEN singleQuery ELSE singleQuery \o ";"

createSchemaQuery(schemaName) == "CREATE SCHEMA IF NOT EXISTS \"" \o schemaName \o "\""

(***************************************************************************)
(* The database behind the driver (the calls sql(...) and tx(...) of       *)
(* src/lib/sql-executor.ts:157 and :205): PostgreSQL reduced to schemas    *)
(* that hold one table each, a session with a search path, and the few     *)
(* statement forms below.  Every tenant table is t, with an integer        *)
(* primary key; the shared schema public holds the table "user" of         *)
(* src/lib/schema.ts.                                                      *)
(***************************************************************************)
Tenants == {"alice", "bob"}
SchemaNames == Tenants \cup {"public"}

\* the table a schema can hold
TableOf(schema) == IF schema = "public" THEN "user" ELSE "t"

\* a schema: whether it exists, whether it holds its table, the name of that
\* table and the keys of its rows
NoSchema == [exists |-> FALSE, hasTable |-> FALSE, name |-> "t", rows |-> {}]
PublicSchema == [exists |-> TRUE, hasTable |-> TRUE, name |-> "user", rows |-> {1}]

IdentFrom(n, p, e, quoted) ==
    IF quoted
    THEN [ok |-> e <= Len(n) /\ e > p + 1 /\ Ch(n, e) = "\"",
          name |-> SubSeq(n, p + 1, e - 1), next |-> e + 1]
    ELSE [ok |-> e > p, name |-> SubSeq(n, p, e - 1), next |-> e]

\* an identifier at position p of the statement text n: a word, or a quoted name
IdentAt(n, p) ==
    IF p <= Len(n) /\ Ch(n, p) = "\""
    THEN IdentFrom(n, p, ValueEnd(n, p + 1), TRUE)
    ELSE IdentFrom(n, p, WordEnd(n, p), FALSE)

DotAfter(n, a) == a.ok /\ a.next <= Len(n) /\ Ch(n, a.next) = "."

Ref(ok, parts, schema, table, next) ==
    [ok |-> ok, parts |-> parts, schema |-> schema, table |-> table, next |-> next]

RefFrom3(b, c) == Ref(c.ok, 3, b.name, c.name, c.next)

RefFrom2(n, a, b) ==
    IF DotAfter(n, b) THEN RefFrom3(b, IdentAt(n, b.next + 1))
    ELSE Ref(b.ok, 2, a.name, b.name, b.next)

RefFrom1(n, a) ==
    IF DotAfter(n, a) THEN RefFrom2(n, a, IdentAt(n, a.next + 1))
    ELSE Ref(a.ok, 1, "", a.name, a.next)

\* a table reference at position p: table, schema.table, or a longer name
RefAt(n, p) == RefFrom1(n, IdentAt(n, p))

Parsed(op, ref) == [op |-> op, parts |-> ref.parts, schema |-> ref.schema, table |-> ref.table]
NoRef == Ref(TRUE, 0, "", "", 0)
SyntaxError == Parsed("syntax", NoRef)

ParseSet(n, id) ==
    IF id.ok /\ id.next = Len(n) + 1
    THEN [op |-> "setpath", parts |-> 1, schema |-> id.name, table |-> ""]
    ELSE SyntaxError

ParseSelect(n, ref) ==
    IF ref.ok /\ (ref.next = Len(n) + 1 \/ HasAt(n, ref.next, " where ")
                  \/ SubSeq(n, ref.next, Len(n)) = " limit 3")
    THEN Parsed("select", ref)
    ELSE SyntaxError

ParseWithTail(n, op, ref, tail) ==
    IF ref.ok /\ SubSeq(n, ref.next, Len(n)) = tail THEN Parsed(op, ref) ELSE SyntaxError

ParseNormal(n) ==
    CASE n = "commit" -> Parsed("commit", NoRef)
      [] HasAt(n, 1, "set search_path to ") ->
             ParseSet(n, IdentAt(n, Len("set search_path to ") + 1))
      [] HasAt(n, 1, "select * from ") ->
             ParseSelect(n, RefAt(n, Len("select * from ") + 1))
      [] HasAt(n, 1, "insert into ") ->
             ParseWithTail(n, "insert", RefAt(n, Len("insert into ") + 1), " values (1)")
      [] HasAt(n, 1, "create table ") ->
             ParseWithTail(n, "create", RefAt(n, Len("create table ") + 1),
                           " (id int primary key)")
      [] OTHER -> SyntaxError

StripSemicolon(t) ==
    IF Len(t) > 0 /\ Ch(t, Len(t)) = ";" THEN trim(SubSeq(t, 1, Len(t) - 1)) ELSE t

\* what the database reads in the text of one statement (keywords and
\* unquoted names are folded to lower case; the names of the model are
\* lower case)
DbParse(text) == ParseNormal(toLowerCase(StripSemicolon(trim(text))))

\* the catalogs every session can read whatever its search path
IsCatalog(st) ==
    \/ st.schema = "information_schema"
    \/ (st.parts = 1 /\ HasAt(st.table, 1, "pg_"))

\* the schema a statement works on in a session whose search path is path
TargetSchema(st, path) == IF st.parts = 1 THEN path ELSE st.schema

FirstWord(t) == SubSeq(t, 1, WordEnd(t, 1) - 1)

Failure(message) == [ok |-> FALSE, error |-> message, rows |-> <<>>]
Rows(rows) == [ok |-> TRUE, error |-> "", rows |-> rows]

\* the rows of a table, as the driver returns them (in key order)
MinOf(S) == CHOOSE x \in S : \A y \in S : x <= y

RECURSIVE RowsOf(_, _)
RowsOf(schema, rowSet) ==
    IF rowSet = {} THEN <<>>
    ELSE <<[schema |-> schema, id |-> MinOf(rowSet)]>>
             \o RowsOf(schema, rowSet \ {MinOf(rowSet)})

SchemaExists(d, sch) == sch \in DOMAIN d /\ d[sch].exists

HasTable(d, sch, table) == SchemaExists(d, sch) /\ d[sch].hasTable /\ table = d[sch].name

RelationMissing(table) == Failure("relation \"" \o table \o "\" does not exist")

\* the outcome of the parsed statement st on the tables d, sch being the
\* schema it works on
OutcomeOf(st, sch, text, d) ==
    CASE st.op = "syntax" ->
             Failure("syntax error at or near \"" \o FirstWord(trim(text)) \o "\"")
      [] st.op \in {"commit", "setpath"} -> Rows(<<>>)
      [] st.parts = 3 ->
             Failure("cross-database references are not implemented")
      [] IsCatalog(st) -> Rows(<<>>)
      [] st.op = "select" ->
             IF HasTable(d, sch, st.table) THEN Rows(RowsOf(sch, d[sch].rows))
             ELSE RelationMissing(st.table)
      [] st.op = "insert" ->
             IF ~HasTable(d, sch, st.table) THEN RelationMissing(st.table)
             ELSE IF 1 \in d[sch].rows
             THEN Failure("duplicate key value violates unique constraint \""
                          \o st.table \o "_pkey\"")
             ELSE Rows(<<>>)
      [] st.op = "create" ->
             IF ~SchemaExists(d, sch)
             THEN Failure("no schema has been selected to create in")
             ELSE IF d[sch].hasTable
             THEN Failure("relation \"" \o st.table \o "\" already exists")
             ELSE IF st.table # TableOf(sch)
             THEN Failure("permission denied for schema " \o sch)
             ELSE Rows(<<>>)

\* the outcome of one statement on the tables d under the search path path
DbOutcome(st, text, d, path) == OutcomeOf(st, TargetSchema(st, path), text, d)

\* the tables after the parsed statement st succeeded
DbEffect(st, d, path) ==
    CASE st.op = "insert" /\ ~IsCatalog(st) ->
             [d EXCEPT ![TargetSchema(st, path)].rows = @ \cup {1}]
      [] st.op = "create" /\ ~IsCatalog(st) ->
             [d EXCEPT ![TargetSchema(st, path)].hasTable = TRUE]
      [] OTHER -> d

\* the search path of a driver that serves every statement in a round trip of
\* its own
PathAfterRoundTrip(st, path) == "public"

\* the search path after the parsed statement st succeeded
PathAfter(st, path) == IF st.op = "setpath" THEN st.schema ELSE path

\* CREATE SCHEMA IF NOT EXISTS
WithSchema(d, schemaName) ==
    IF schemaName \in DOMAIN d /\ ~d[schemaName].exists
    THEN [d EXCEPT ![schemaName].exists = TRUE]
    ELSE d

(***************************************************************************)
(* executeUserQuery, results and errors                                    *)
(* (src/lib/sql-executor.ts:207-227, 233-267).                             *)
(***************************************************************************)
RECURSIVE Join(_, _, _)
Join(seq, sep, n) ==
    IF n > Len(seq) THEN ""
    ELSE IF n = Len(seq) THEN seq[n]
    ELSE seq[n] \o sep \o Join(seq, sep, n + 1)

\* the line pushed to messages for statement number no, whose text is
\* singleQuery and whose result is the array rows
statementMessage(no, singleQuery, rows) ==
    IF Len(rows) = 0 /\ ~startsWith(toUpperCase(singleQuery), "SELECT")
    THEN "Statement " \o NumStr(no) \o " executed successfully."
    ELSE "Statement " \o NumStr(no) \o ": " \o NumStr(Len(rows)) \o " row(s) returned."

\* the error thrown out of the transaction for statement number no
innerError(no, singleQuery, dbMessage) ==
    "Error in statement " \o NumStr(no) \o " (\"" \o singleQuery \o "\"): "
        \o (IF dbMessage = "" THEN "Unknown error" ELSE dbMessage)

\* the outer catch: known PostgreSQL messages become a short phrase
friendlyError(errorMessage) ==
    CASE includes(errorMessage, "syntax error") -> "Syntax error in SQL query"
      [] includes(errorMessage, "relation") /\ includes(errorMessage, "does not exist") ->
             "Table or relation does not exist"
      [] includes(errorMessage, "column") /\ includes(errorMessage, "does not exist") ->
             "Column does not exist"
      [] includes(errorMessage, "duplicate key") -> "Duplicate key violation"
      [] includes(errorMessage, "foreign key") -> "Foreign key constraint violation"
      [] includes(errorMessage, "not null") -> "Not null constraint violation"
      [] OTHER -> errorMessage

\* fields holds the optional properties the object has
failureResult(error) ==
    [success |-> FALSE, error |-> error, message |-> "", rowCount |-> 0, data |-> <<>>,
     fields |-> {"error"}]

successResult(allResults, totalRowCount, messages) ==
    [success |-> TRUE, error |-> "", data |-> allResults, rowCount |-> totalRowCount,
     fields |-> {"data", "rowCount", "message"},
     message |-> IF Len(messages) > 1
                 THEN "All " \o NumStr(Len(messages)) \o " statements executed successfully. "
                      \o Join(messages, " ", 1)
                 ELSE IF Join(messages, " ", 1) = "" THEN "Query executed successfully."
                 ELSE Join(messages, " ", 1)]

NoResult ==
    [success |-> FALSE, error |-> "", message |-> "", rowCount |-> 0, data |-> <<>>,
     fields |-> {}]

(***************************************************************************)
(* formatQueryResult (src/lib/sql-executor.ts:270-299).  The rows of the   *)
(* model have the one column id.                                           *)
(***************************************************************************)
\* `${value}` for a property that may be absent
Template(r, field, value) == IF field \in r.fields THEN value ELSE "undefined"

RECURSIVE repeat(_, _)
repeat(s, n) == IF n <= 0 THEN "" ELSE s \o repeat(s, n - 1)

padEnd(s, width) == s \o repeat(" ", width - Len(s))

\* String(row[col] || '')
CellText(row) == IF row.id = 0 THEN "" ELSE NumStr(row.id)

Max(a, b) == IF a >= b THEN a ELSE b

RECURSIVE MaxDataWidth(_, _)
MaxDataWidth(data, n) ==
    IF n > Len(data) THEN 0 ELSE Max(Len(CellText(data[n])), MaxDataWidth(data, n + 1))

columnWidth(data) == Max(Max(Len("id"), MaxDataWidth(data, 1)), 3)

formatTable(data, width) ==
    Join(<<padEnd("id", width), repeat("-", width)>>
             \o [n \in 1..Len(data) |-> padEnd(CellText(data[n]), width)]
             \o <<"", "(" \o NumStr(Len(data)) \o " row"
                          \o (IF Len(data) # 1 THEN "s" ELSE "") \o ")">>,
         "\n", 1)

\* the message rendered for a result without rows, without the fallback text
formatMessageOnly(r) ==
    IF ~r.success THEN "ERROR: " \o Template(r, "error", r.error)
    ELSE IF "data" \notin r.fields \/ Len(r.data) = 0
    THEN Template(r, "message", r.message)
    ELSE formatTable(r.data, columnWidth(r.data))

formatQueryResult(r) ==
    IF ~r.success THEN "ERROR: " \o Template(r, "error", r.error)
    ELSE IF "data" \notin r.fields \/ Len(r.data) = 0
    THEN (IF "message" \in r.fields /\ r.message # "" THEN r.message
          ELSE "Query executed successfully")
    ELSE formatTable(r.data, columnWidth(r.data))

(***************************************************************************)
(* The submitted queries of the model: up to MaxStmts plain statements     *)
(* joined by "; "; a probe of the access checks, alone or beside one plain *)
(* statement; and the texts that hold no statement.                        *)
(***************************************************************************)
PlainStatements ==
    { "SELECT * FROM t",
      "INSERT INTO t VALUES (1)",
      "CREATE TABLE t (id INT PRIMARY KEY)",
      "COMMIT",
      "selec 1" }

ProbeStatements ==
    { "SET search_path TO bob",
      "SELECT * FROM bob.t",
      "SELECT * FROM \"bob\".t",
      "SELECT * FROM alice.bob.t",
      "SELECT * FROM alice.bob.t WHERE note = 'not null'",
      "SELECT * FROM bob^^^.t",
      "SELECT * FROM public.user",
      "SELECT * FROM \"public\".\"user\"",
      "SELECT * FROM pg_tables WHERE schemaname = 'bob'",
      "SELECT * FROM pg_tables WHERE schemaname = \"alice\"",
      "SELECT * FROM t WHERE schemaname = ''",
      "SELECT * FROM t WHERE email = 'john@example.com'",
      "SELECT * FROM t WHERE price < 1.5",
      "SELECT * FROM t WHERE t.id = 1",
      "SELECT * FROM t WHERE schemaname = 'alice\"x'",
      "SELECT * FROM information_schema.tables",
      "SELECT * FROM information_schema.tables WHERE table_schema = current_schema",
      "SELECT * FROM information_schema.tables WHERE table_name <> 'alice'",
      "DROP DATABASE neondb",
      "create  database x",
      "DROP USER bob",
      "Create\nUser eve",
      "GRANT ALL ON t TO bob",
      "REVOKE ALL ON t FROM bob",
      "SELECT * FROM pg_authid, pg_tables WHERE schemaname = 'alice'",
      "SELECT * FROM pg_shadow, pg_tables WHERE schemaname = 'bob'",
      "SELECT * FROM pg_user, pg_tables WHERE schemaname = 'alice'",
      "^^^sql\nSELECT * FROM t\n^^^" }

EmptyQueries == {"", " \n", ";", ";;"}

PlainLists == UNION { [1..n -> PlainStatements] : n \in 1..MaxStmts }

ProbeLists ==
    { <<p>> : p \in ProbeStatements }
        \cup { <<p, t>> : p \in ProbeStatements, t \in PlainStatements }
        \cup { <<t, p>> : p \in ProbeStatements, t \in PlainStatements }

Queries == { Join(l, "; ", 1) : l \in PlainLists \cup ProbeLists } \cup EmptyQueries

\* the databases a call can find: a fresh one, and one in which both
\* tenants have their schema and their table, that of bob with a row
InitialDatabases ==
    { [s \in SchemaNames |-> IF s = "public" THEN PublicSchema ELSE NoSchema],
      [s \in SchemaNames |-> IF s = "public" THEN PublicSchema
                             ELSE [exists |-> TRUE, hasTable |-> TRUE, name |-> "t",
                                   rows |-> IF s = "bob" THEN {1} ELSE {}]] }

(***************************************************************************)
(* State.                                                                  *)
(***************************************************************************)
VARIABLES
    pc,        \* where the call of executeUserQuery is
    call,      \* its arguments and locals
    session,   \* the session of the transaction: search path, open or not
    db,        \* the committed tables
    tdb,       \* the tables as the session of the transaction sees them
    dbBefore,  \* the committed tables when the call began
    dbLog,     \* the calls made to the driver by this call, in order
    result,    \* the QueryResult returned
    info,      \* the SchemaInfo returned by getUserSchemaInfo
    display,   \* the lines the terminal has shown
    terminal   \* where the terminal is with an /ai command

vars == <<pc, call, session, db, tdb, dbBefore, dbLog, result, info, display, terminal>>

\* what executeUserQuery leaves alone
uiVars == <<info, display, terminal>>

NoInfo == [tables |-> <<>>, totalTables |-> 0]

\* no /ai command under way
NoTerminal == [at |-> "idle"]

NoCall == [username |-> "", query |-> "", schemaName |-> "", queries |-> <<>>, i |-> 0,
           allResults |-> <<>>, totalRowCount |-> 0, messages |-> <<>>, stage |-> ""]

DefaultSession == [path |-> "public", inTx |-> FALSE]

Init ==
    /\ pc = "idle"
    /\ call = NoCall
    /\ session = DefaultSession
    /\ db \in InitialDatabases
    /\ tdb = db
    /\ dbBefore = db
    /\ dbLog = <<>>
    /\ result = NoResult
    /\ info = NoInfo
    /\ display = <<>>
    /\ terminal = NoTerminal

\* the call with CREATE SCHEMA IF NOT EXISTS issued ahead of the checks
CallSchemaFirst(u, q) ==
    /\ pc = "idle"
    /\ LET chk == PreCheck(u, q) IN
       /\ call' = [NoCall EXCEPT !.username = u, !.query = q,
                                 !.schemaName = sanitizeSchemaName(u), !.stage = chk.stage]
       /\ IF chk.ok
          THEN pc' = "setup" /\ result' = result
          ELSE pc' = "done" /\ result' = failureResult(chk.error)
    /\ dbBefore' = db
    /\ db' = WithSchema(db, sanitizeSchemaName(u))
    /\ tdb' = db'
    /\ dbLog' = <<[kind |-> "schema", text |-> createSchemaQuery(sanitizeSchemaName(u)),
                   path |-> DefaultSession.path, no |-> 0, ok |-> TRUE]>>
    /\ UNCHANGED session
    /\ UNCHANGED uiVars

\* lines 88-150: the checks, none of which calls the database
Call(u, q) ==
    /\ pc = "idle"
    /\ LET chk == PreCheck(u, q) IN
       /\ call' = [NoCall EXCEPT !.username = u, !.query = q,
                                 !.schemaName = sanitizeSchemaName(u), !.stage = chk.stage]
       /\ IF chk.ok
          THEN pc' = "setup" /\ result' = result
          ELSE pc' = "done" /\ result' = failureResult(chk.error)
    /\ dbBefore' = db
    /\ dbLog' = <<>>
    /\ UNCHANGED <<session, db, tdb>>
    /\ UNCHANGED uiVars

\* lines 153-191: CREATE SCHEMA IF NOT EXISTS in a call of its own, then the
\* statement list is prepared and the transaction is opened
CreateSchema ==
    /\ pc = "setup"
    /\ LET queries == splitQueries(call.schemaName, trim(call.query)) IN
       /\ db' = WithSchema(db, call.schemaName)
       /\ tdb' = db'
       /\ dbLog' = Append(dbLog, [kind |-> "schema", text |-> createSchemaQuery(call.schemaName),
                                  path |-> DefaultSession.path, no |-> 0, ok |-> TRUE])
       /\ call' = [call EXCEPT !.queries = queries, !.i = 1]
       /\ IF Len(queries) = 0
          THEN /\ pc' = "done"
               /\ result' = failureResult("Empty query or only semicolons provided")
               /\ session' = session
          ELSE /\ pc' = "tx"
               /\ result' = result
               /\ session' = [path |-> DefaultSession.path, inTx |-> TRUE]
    /\ UNCHANGED dbBefore
    /\ UNCHANGED uiVars

\* the schema call with its error left to escape the function
CreateSchemaRethrows ==
    /\ pc = "setup"
    /\ pc' = "thrown"
    /\ dbLog' = Append(dbLog, [kind |-> "schema", text |-> createSchemaQuery(call.schemaName),
                               path |-> DefaultSession.path, no |-> 0, ok |-> FALSE])
    /\ UNCHANGED <<call, session, db, tdb, dbBefore, result>>
    /\ UNCHANGED uiVars

\* lines 161-167: the schema call throws
CreateSchemaFails ==
    /\ pc = "setup"
    /\ pc' = "done"
    /\ result' = failureResult("Failed to set up user workspace")
    /\ dbLog' = Append(dbLog, [kind |-> "schema", text |-> createSchemaQuery(call.schemaName),
                               path |-> DefaultSession.path, no |-> 0, ok |-> FALSE])
    /\ UNCHANGED <<call, session, db, tdb, dbBefore>>
    /\ UNCHANGED uiVars

Logged(text, ok) ==
    [kind |-> "stmt", text |-> text, path |-> session.path, no |-> call.i, ok |-> ok]

\* the current statement, whose text for the driver is text and which the
\* database reads as st, returns the rows of out
Succeed(singleQuery, text, st, out) ==
    /\ tdb' = DbEffect(st, tdb, session.path)
    /\ db' = IF ~session.inTx \/ st.op = "commit" THEN tdb' ELSE db
    /\ session' = [path |-> PathAfter(st, session.path),
                   inTx |-> session.inTx /\ st.op # "commit"]
    /\ dbLog' = Append(dbLog, Logged(text, TRUE))
    /\ call' = [call EXCEPT !.i = @ + 1,
                            !.allResults = @ \o out.rows,
                            !.totalRowCount = @ + Len(out.rows),
                            !.messages = Append(@, statementMessage(call.i, singleQuery, out.rows))]
    /\ UNCHANGED <<pc, dbBefore, result>>
    /\ UNCHANGED uiVars

CurrentText == queryToExecute(call.queries[call.i])

CurrentOutcome == DbOutcome(DbParse(CurrentText), CurrentText, tdb, session.path)

\* lines 199-222: one statement of the loop succeeds
StatementSucceeds ==
    /\ pc = "tx"
    /\ call.i <= Len(call.queries)
    /\ CurrentOutcome.ok
    /\ Succeed(call.queries[call.i], CurrentText, DbParse(CurrentText), CurrentOutcome)

\* the loop with the error of a statement recorded and the loop carried on
ThrowAndContinue(dbMessage) ==
    /\ dbLog' = Append(dbLog, Logged(CurrentText, FALSE))
    /\ call' = [call EXCEPT !.i = @ + 1,
                            !.messages = Append(@, innerError(call.i, call.queries[call.i],
                                                              dbMessage))]
    /\ UNCHANGED <<pc, session, db, tdb, dbBefore, result>>
    /\ UNCHANGED uiVars

\* the call returns a failure for the error thrown for the current statement;
\* the transaction, if still open, is rolled back
Throw(dbMessage) ==
    /\ pc' = "done"
    /\ result' = failureResult(friendlyError(
                     innerError(call.i, call.queries[call.i], dbMessage)))
    /\ tdb' = db
    /\ session' = [session EXCEPT !.inTx = FALSE]
    /\ dbLog' = Append(dbLog, Logged(CurrentText, FALSE))
    /\ UNCHANGED <<call, db, dbBefore>>
    /\ UNCHANGED uiVars

\* lines 223-227, 242-267: the database refuses the statement
StatementFails ==
    /\ pc = "tx"
    /\ call.i <= Len(call.queries)
    /\ ~CurrentOutcome.ok
    /\ Throw(CurrentOutcome.error)

\* the same, for a request that does not reach the database
RequestFails ==
    /\ pc = "tx"
    /\ call.i <= Len(call.queries)
    /\ \E dbMessage \in {"fetch failed", ""} : Throw(dbMessage)

\* lines 230-240: the callback returns, the transaction commits
Commit ==
    /\ pc = "tx"
    /\ call.i > Len(call.queries)
    /\ db' = tdb
    /\ session' = [session EXCEPT !.inTx = FALSE]
    /\ pc' = "done"
    /\ result' = successResult(call.allResults, call.totalRowCount, call.messages)
    /\ UNCHANGED <<call, tdb, dbBefore, dbLog>>
    /\ UNCHANGED uiVars

Next ==
    \/ \E u \in Tenants, q \in Queries : Call(u, q)
    \/ CreateSchema
    \/ CreateSchemaFails
    \/ StatementSucceeds
    \/ StatementFails
    \/ RequestFails
    \/ Commit

Spec == Init /\ [][Next]_vars

(***************************************************************************)
(* The derivation of the schema name, applied to user names of up to       *)
(* MaxNameLen characters (src/lib/sql-executor.ts:150,                     *)
(* src/lib/schema-introspection.ts:34).                                    *)
(***************************************************************************)
MaxNameLen == 3

NameChars == {"a", "Z", "7", "_", "-", ".", "@", " ", "\""}

RECURSIVE Usernames(_)
Usernames(n) ==
    IF n = 0 THEN {""}
    ELSE Usernames(n - 1) \cup {u \o c : u \in Usernames(n - 1), c \in NameChars}

InitNames ==
    /\ pc = "name"
    /\ call \in {[NoCall EXCEPT !.username = u] : u \in Usernames(MaxNameLen)}
    /\ session = DefaultSession
    /\ db \in InitialDatabases
    /\ tdb = db
    /\ dbBefore = db
    /\ dbLog = <<>>
    /\ result = NoResult
    /\ info = NoInfo
    /\ display = <<>>
    /\ terminal = NoTerminal

\* const schemaName = username.replace(/[^a-zA-Z0-9_]/g, '_')
DeriveSchemaName ==
    /\ pc = "name"
    /\ pc' = "derived"
    /\ call' = [call EXCEPT !.schemaName = sanitizeSchemaName(call.username)]
    /\ UNCHANGED <<session, db, tdb, dbBefore, dbLog, result>>
    /\ UNCHANGED uiVars

\* the derivation applied to its own result
DeriveAgain ==
    /\ pc = "derived"
    /\ pc' = "rederived"
    /\ call' = [call EXCEPT !.schemaName = sanitizeSchemaName(call.schemaName)]
    /\ UNCHANGED <<session, db, tdb, dbBefore, dbLog, result>>
    /\ UNCHANGED uiVars

NextNames == DeriveSchemaName \/ DeriveAgain

SpecNames == InitNames /\ [][NextNames]_vars

(***************************************************************************)
(* formatQueryResult applied to the results a caller can hand it: any      *)
(* QueryResult, with up to MaxRows rows.                                   *)
(***************************************************************************)
MaxRows == 3

RowValues == {0, 1, 2, 3}

DataLists == UNION { [1..n -> {[id |-> v] : v \in RowValues}] : n \in 0..MaxRows }

QueryResults ==
    [success : BOOLEAN,
     fields : SUBSET {"error", "message", "data"},
     error : {"", "Syntax error in SQL query"},
     message : {"", "Statement 1: 0 row(s) returned."},
     rowCount : {0},
     data : DataLists]

InitFormat ==
    /\ pc = "result"
    /\ result \in QueryResults
    /\ call = NoCall
    /\ session = DefaultSession
    /\ db \in InitialDatabases
    /\ tdb = db
    /\ dbBefore = db
    /\ dbLog = <<>>
    /\ info = NoInfo
    /\ display = <<>>
    /\ terminal = NoTerminal

FormatResult ==
    /\ pc = "result"
    /\ pc' = "formatted"
    /\ display' = <<formatQueryResult(result)>>
    /\ UNCHANGED <<call, session, db, tdb, dbBefore, dbLog, result, info, terminal>>

NextFormat == FormatResult

SpecFormat == InitFormat /\ [][NextFormat]_vars

(***************************************************************************)
(* formatSchemaForAI (src/unnamed/part_002:124-204), for tables whose      *)
(* columns and rows are those of the model: the rows have the column id.   *)
(***************************************************************************)
columnLine(column) ==
    "  - " \o column.columnName \o ": " \o column.dataType
        \o (IF column.isPrimaryKey THEN " (PRIMARY KEY)" ELSE "")
        \o (IF column.isNullable THEN " (nullable)" ELSE " (not null)") \o "\n"

\* JSON.stringify of a row, and of an object with the one property id
idJson(id) == "{\"id\":" \o NumStr(id) \o "}"

rowLine(row) == "  " \o idJson(row.id) \o "\n"

\* the rows shown: all of them up to 15, else the first 10 and the last 5
dataLines(sampleData) ==
    IF Len(sampleData) <= 15
    THEN Join([n \in 1..Len(sampleData) |-> rowLine(sampleData[n])], "", 1)
    ELSE Join([n \in 1..10 |-> rowLine(sampleData[n])], "", 1)
             \o "  ... (" \o NumStr(Len(sampleData) - 15) \o " more rows) ...\n"
             \o Join([n \in 1..5 |-> rowLine(sampleData[Len(sampleData) - 5 + n])], "", 1)

\* the hint computed from the first row only
maxValueOfFirst(sampleData, n) ==
    IF n > Len(sampleData) THEN 0 ELSE sampleData[n].id

\* values.length > 0 ? Math.max(...values) : 0
RECURSIVE maxValue(_, _)
maxValue(sampleData, n) ==
    IF n > Len(sampleData) THEN 0
    ELSE IF n = Len(sampleData) THEN sampleData[n].id
    ELSE Max(sampleData[n].id, maxValue(sampleData, n + 1))

isNumericPk(column) ==
    column.isPrimaryKey /\ (includes(column.dataType, "int") \/ includes(column.dataType, "serial"))

\* the lines about the primary key of a table that has rows
keyLines(table) ==
    IF \A n \in 1..Len(table.columns) : ~table.columns[n].isPrimaryKey THEN ""
    ELSE (IF \E n \in 1..Len(table.columns) : isNumericPk(table.columns[n])
          THEN "CRITICAL: Highest primary key values: "
                   \o idJson(maxValue(table.sampleData, 1)) \o "\n"
                   \o "CRITICAL: Next available primary key values should start from: "
                   \o idJson(maxValue(table.sampleData, 1) + 1) \o "\n"
          ELSE "")
         \o "All primary key values in use: ["
         \o Join([n \in 1..Len(table.sampleData) |-> idJson(table.sampleData[n].id)], ",", 1)
         \o "]\n"

tableText(table) ==
    "Table: " \o table.tableName \o "\n" \o "Columns:\n"
        \o Join([n \in 1..Len(table.columns) |-> columnLine(table.columns[n])], "", 1)
        \o (IF Len(table.sampleData) > 0
            THEN "EXISTING DATA (" \o NumStr(Len(table.sampleData)) \o " rows):\n"
                     \o dataLines(table.sampleData) \o keyLines(table)
            ELSE "EXISTING DATA: Table is empty (0 rows)\n"
                     \o "CRITICAL: This is an empty table - primary keys should start from 1\n")
        \o "\n"

formatSchemaForAI(schemaInfo) ==
    IF schemaInfo.totalTables = 0
    THEN "No tables found in the user's schema. The user needs to create tables first."
    ELSE "Database Schema (" \o NumStr(schemaInfo.totalTables) \o " tables):\n\n"
             \o Join([n \in 1..Len(schemaInfo.tables) |-> tableText(schemaInfo.tables[n])], "", 1)

(***************************************************************************)
(* getUserSchemaInfo (src/lib/schema-introspection.ts:32-146).  Every      *)
(* sql(...) is a request of its own to the database: it runs in a new      *)
(* session, whose search path is the default one.                          *)
(***************************************************************************)
MaxId == 3

\* the schema of a tenant: absent, empty, or holding a table, named t or
\* like the table of the schema public, with any rows
TenantSchemas ==
    {NoSchema, [NoSchema EXCEPT !.exists = TRUE]}
        \cup { [exists |-> TRUE, hasTable |-> TRUE, name |-> n, rows |-> r] :
                 n \in {"t", "user"}, r \in SUBSET (1..MaxId) }

InfoDatabases ==
    { [s \in SchemaNames |-> IF s = "public" THEN PublicSchema
                             ELSE IF s = "alice" THEN a ELSE b] :
        a \in TenantSchemas, b \in {NoSchema, [NoSchema EXCEPT !.exists = TRUE, !.hasTable = TRUE,
                                                               !.rows = {2}]} }

InitInfo ==
    /\ pc = "info"
    /\ call \in {[NoCall EXCEPT !.username = u] : u \in Tenants}
    /\ session = DefaultSession
    /\ db \in InfoDatabases
    /\ tdb = db
    /\ dbBefore = db
    /\ dbLog = <<>>
    /\ result = NoResult
    /\ info = NoInfo
    /\ display = <<>>
    /\ terminal = NoTerminal

InfoLogged(text, no, ok) ==
    [kind |-> "info", text |-> text, path |-> DefaultSession.path, no |-> no, ok |-> ok]

\* lines 34-38: the schema name, and SET search_path in a request of its own
SetSearchPath ==
    /\ pc = "info"
    /\ pc' = "tables"
    /\ call' = [call EXCEPT !.schemaName = sanitizeSchemaName(call.username)]
    /\ dbLog' = Append(dbLog, InfoLogged(setPathCommand(sanitizeSchemaName(call.username)),
                                         0, TRUE))
    /\ UNCHANGED <<session, db, tdb, dbBefore, result, info, display, terminal>>

\* the rows of pg_tables WHERE schemaname = schemaName
tablesOfSchema(d, schemaName) ==
    IF SchemaExists(d, schemaName) /\ d[schemaName].hasTable
    THEN <<d[schemaName].name>> ELSE <<>>

\* lines 41-54: the names of the tables of the schema
ListTables ==
    /\ pc = "tables"
    /\ call' = [call EXCEPT !.queries = tablesOfSchema(db, call.schemaName), !.i = 1]
    /\ pc' = "columns"
    /\ dbLog' = Append(dbLog, InfoLogged("SELECT tablename FROM pg_tables", 0, TRUE))
    /\ UNCHANGED <<session, db, tdb, dbBefore, result, info, display, terminal>>

\* the columns of the one kind of table of the model
columnInfos ==
    <<[columnName |-> "id", dataType |-> "integer", isNullable |-> FALSE,
       isPrimaryKey |-> TRUE]>>

\* lines 58-115: the columns of the current table
ReadColumns ==
    /\ pc = "columns"
    /\ call.i <= Len(call.queries)
    /\ pc' = "sample"
    /\ dbLog' = Append(dbLog, InfoLogged("SELECT ... FROM information_schema.columns",
                                         call.i, TRUE))
    /\ UNCHANGED <<call, session, db, tdb, dbBefore, result, info, display, terminal>>

sampleQuery(tableName) == "SELECT * FROM \"" \o tableName \o "\" LIMIT 3"

\* LIMIT 3
FirstThree(rows) == SubSeq(rows, 1, IF Len(rows) < 3 THEN Len(rows) ELSE 3)

\* the outcome of the sample query in its own session
sampleOutcome(d, tableName) ==
    DbOutcome(DbParse(sampleQuery(tableName)), sampleQuery(tableName), d, DefaultSession.path)

tableInfo(tableName, sampleData) ==
    [tableName |-> tableName, columns |-> columnInfos, sampleData |-> sampleData]

\* lines 117-132: the sample rows of the current table; an error of the
\* query is caught and leaves the sample empty
ReadSample ==
    /\ pc = "sample"
    /\ call' = [call EXCEPT
                   !.i = @ + 1,
                   !.allResults =
                       Append(@, tableInfo(call.queries[call.i],
                                  IF sampleOutcome(db, call.queries[call.i]).ok
                                  THEN FirstThree(sampleOutcome(db, call.queries[call.i]).rows)
                                  ELSE <<>>))]
    /\ dbLog' = Append(dbLog, InfoLogged(sampleQuery(call.queries[call.i]), call.i,
                                         sampleOutcome(db, call.queries[call.i]).ok))
    /\ pc' = "columns"
    /\ UNCHANGED <<session, db, tdb, dbBefore, result, info, display, terminal>>

\* the same when the request does not reach the database
SampleRequestFails ==
    /\ pc = "sample"
    /\ call' = [call EXCEPT !.i = @ + 1,
                            !.allResults = Append(@, tableInfo(call.queries[call.i], <<>>))]
    /\ dbLog' = Append(dbLog, InfoLogged(sampleQuery(call.queries[call.i]), call.i, FALSE))
    /\ pc' = "columns"
    /\ UNCHANGED <<session, db, tdb, dbBefore, result, info, display, terminal>>

\* the error of a catalog request left to escape the function
CatalogCallRethrows ==
    /\ pc \in {"info", "tables", "columns"}
    /\ pc = "columns" => call.i <= Len(call.queries)
    /\ pc' = "thrown"
    /\ dbLog' = Append(dbLog, InfoLogged("", call.i, FALSE))
    /\ UNCHANGED <<call, session, db, tdb, dbBefore, result, info, display, terminal>>

\* lines 139-145: any other request throws: the empty SchemaInfo is returned
CatalogCallFails ==
    /\ pc \in {"info", "tables", "columns"}
    /\ pc = "columns" => call.i <= Len(call.queries)
    /\ pc' = "returned"
    /\ info' = NoInfo
    /\ dbLog' = Append(dbLog, InfoLogged("", call.i, FALSE))
    /\ UNCHANGED <<call, session, db, tdb, dbBefore, result, display, terminal>>

\* lines 135-138
ReturnInfo ==
    /\ pc = "columns"
    /\ call.i > Len(call.queries)
    /\ pc' = "returned"
    /\ info' = [tables |-> call.allResults, totalTables |-> Len(call.allResults)]
    /\ UNCHANGED <<call, session, db, tdb, dbBefore, dbLog, result, display, terminal>>

\* the text given to the model for the SchemaInfo returned
DescribeSchema ==
    /\ pc = "returned"
    /\ pc' = "described"
    /\ display' = <<formatSchemaForAI(info)>>
    /\ UNCHANGED <<call, session, db, tdb, dbBefore, dbLog, result, info, terminal>>

\* ai-agent.ts:216-232: Math.max of the ids of the sample rows plus 1, or 1
nextAvailableId(table) ==
    IF Len(table.sampleData) > 0 THEN maxValue(table.sampleData, 1) + 1 ELSE 1

\* ai-agent.ts:201-211
existingDataOf(table) ==
    IF Len(table.sampleData) > 0
    THEN "Table " \o table.tableName \o " existing data:\n"
             \o Join([n \in 1..Len(table.sampleData) |-> idJson(table.sampleData[n].id)],
                     "\n", 1)
    ELSE "Table " \o table.tableName \o ": EMPTY (no existing data)"

\* ai-agent.ts:180-242: the text put under EXISTING DATA IN TABLES in the
\* generation prompt when every table of the SchemaInfo is relevant
existingData(schemaInfo) ==
    Join([n \in 1..Len(schemaInfo.tables) |-> existingDataOf(schemaInfo.tables[n])], "\n\n", 1)
        \o (IF Len(schemaInfo.tables) > 0
            THEN "\n\nCRITICAL: NEXT AVAILABLE ID VALUES:\n"
                     \o Join([n \in 1..Len(schemaInfo.tables) |->
                                 schemaInfo.tables[n].tableName \o ": Start from ID "
                                     \o NumStr(nextAvailableId(schemaInfo.tables[n]))],
                             "\n", 1)
            ELSE "")

\* generateSQLWithAgent builds the context of its generation prompt from the
\* SchemaInfo returned
BuildContext ==
    /\ pc = "returned"
    /\ pc' = "context"
    /\ display' = <<existingData(info)>>
    /\ UNCHANGED <<call, session, db, tdb, dbBefore, dbLog, result, info, terminal>>

NextInfo ==
    \/ SetSearchPath
    \/ ListTables
    \/ ReadColumns
    \/ ReadSample
    \/ SampleRequestFails
    \/ CatalogCallFails
    \/ ReturnInfo
    \/ DescribeSchema

SpecInfo == InitInfo /\ [][NextInfo]_vars

\* getUserSchemaInfo with generateSQLWithAgent as the caller that uses the
\* SchemaInfo returned
NextContext ==
    \/ SetSearchPath
    \/ ListTables
    \/ ReadColumns
    \/ ReadSample
    \/ SampleRequestFails
    \/ CatalogCallFails
    \/ ReturnInfo
    \/ DescribeSchema
    \/ BuildContext

SpecContext == InitInfo /\ [][NextContext]_vars

(***************************************************************************)
(* formatSchemaForAI applied to the SchemaInfo of a schema with at most    *)
(* one table, of up to MaxRows rows.                                       *)
(***************************************************************************)
ColumnLists ==
    { <<[columnName |-> "id", dataType |-> d, isNullable |-> FALSE, isPrimaryKey |-> p]>> :
        d \in {"integer", "bigint", "text"}, p \in BOOLEAN }

SchemaInfos ==
    {NoInfo}
        \cup { [tables |-> <<[tableName |-> "t", columns |-> c, sampleData |-> d]>>,
                totalTables |-> 1] : c \in ColumnLists, d \in DataLists }

InitSchemaText ==
    /\ pc = "returned"
    /\ info \in SchemaInfos
    /\ call = NoCall
    /\ session = DefaultSession
    /\ db \in InitialDatabases
    /\ tdb = db
    /\ dbBefore = db
    /\ dbLog = <<>>
    /\ result = NoResult
    /\ display = <<>>
    /\ terminal = NoTerminal

NextSchemaText == DescribeSchema

SpecSchemaText == InitSchemaText /\ [][NextSchemaText]_vars

(***************************************************************************)
(* Vocabulary of the properties: what a submitted query contains, read     *)
(* from its text alone, and what the call has done.                        *)
(***************************************************************************)
\* the calls of the statement loop made so far
StmtLog == SelectSeq(dbLog, LAMBDA e : e.kind = "stmt")

\* the checks of the call have just run: nothing else has happened yet
JustChecked == pc \in {"setup", "done"} /\ call.username # "" /\ call.i = 0 /\ dbLog = <<>>

\* the call has returned a failure without touching the database
Refused == pc = "done" /\ ~result.success /\ dbLog = <<>> /\ db = dbBefore

\* the start of the word that ends at position e
WordStart(s, e) ==
    CHOOSE j \in 1..e :
        /\ \A k \in j..e : IsWordAt(s, k)
        /\ j = 1 \/ ~IsWordAt(s, j - 1)

\* the last double quote before position e (0 if none)
QuoteBefore(s, e) ==
    CHOOSE j \in 0..(e - 1) :
        /\ j = 0 \/ Ch(s, j) = "\""
        /\ \A k \in (j + 1)..(e - 1) : Ch(s, k) # "\""

\* the name that qualifies what follows the dot at position p: a word that
\* does not start with a digit, folded to lower case, or a quoted name
QualifierAt(s, p) ==
    IF IsWordAt(s, p - 1)
    THEN IF Ch(s, WordStart(s, p - 1)) \in DigitChars THEN ""
         ELSE toLowerCase(SubSeq(s, WordStart(s, p - 1), p - 1))
    ELSE IF p >= 3 /\ Ch(s, p - 1) = "\"" /\ QuoteBefore(s, p - 1) > 0
    THEN SubSeq(s, QuoteBefore(s, p - 1) + 1, p - 2)
    ELSE ""

\* the names x of the schema-qualified references x.y of a query
QualifiedNames(s) ==
    { QualifierAt(s, p) :
        p \in { d \in 2..(Len(s) - 1) :
                  Ch(s, d) = "." /\ (IsWordAt(s, d + 1) \/ Ch(s, d + 1) = "\"") } } \ {""}

\* the query refers to a schema that is neither the tenant's own, nor public,
\* nor information_schema
HasForeignReference(s, username) ==
    \E x \in QualifiedNames(s) :
        x \notin {toLowerCase(sanitizeSchemaName(username)), "public", "information_schema"}

ReferencesPublic(s) == "public" \in QualifiedNames(s)

\* the values v of the literal filters schemaname = 'v' of a query
LiteralValueAt(s, b) ==
    IF b <= Len(s) /\ Ch(s, b) = "'" /\ NextAt(s, b + 1, "'") <= Len(s)
    THEN {SubSeq(s, b + 1, NextAt(s, b + 1, "'") - 1)}
    ELSE {}

LiteralAfterName(s, a) ==
    IF a <= Len(s) /\ Ch(s, a) = "=" THEN LiteralValueAt(s, SkipSpace(s, a + 1)) ELSE {}

SchemaNameLiterals(s) ==
    UNION { LiteralAfterName(s, SkipSpace(s, p + Len("schemaname"))) :
              p \in { d \in 1..Len(s) : HasAt(toLowerCase(s), d, "schemaname") } }

HasQuote(v) == \E i \in 1..Len(v) : Ch(v, i) \in QuoteChars

AccessDeniedPrefix(schemaName) ==
    "Access denied: You can only access your own schema '" \o schemaName
        \o "'. Attempted to access '"

\* the nine dangerous forms, as pairs of words or single words
DangerousForms ==
    { <<"drop", "database">>, <<"create", "database">>, <<"drop", "user">>,
      <<"create", "user">>, <<"grant">>, <<"revoke">>, <<"pg_authid">>,
      <<"pg_shadow">>, <<"pg_user">> }

MatchesDangerousForm(s) ==
    \E f \in DangerousForms :
        IF Len(f) = 2
        THEN RegexTest(<<Lit(f[1]), Ws1, Lit(f[2])>>, toLowerCase(s))
        ELSE includes(toLowerCase(s), f[1])

\* the query names a view of information_schema or a pg_ catalog
NamesCatalog(s) ==
    \/ includes(toLowerCase(s), "information_schema.")
    \/ RegexTest(<<Lit("pg_"), Word1>>, toLowerCase(s))

\* the query filters by the tenant's own schema
FiltersOwnSchema(s, schemaName) ==
    \/ RegexTest(<<Lit("table_schema"), Ws0, Lit("="), Ws0, Lit("'" \o schemaName \o "'")>>, s)
    \/ RegexTest(<<Lit("schemaname"), Ws0, Lit("="), Ws0, Lit("'" \o schemaName \o "'")>>, s)
    \/ RegexTest(<<Lit("table_schema"), Ws0, Lit("="), Ws0, Lit("current_schema")>>,
                 toLowerCase(s))

\* the tables and rows of every schema
Tables(d) ==
    [s \in DOMAIN d |-> [hasTable |-> d[s].hasTable, name |-> d[s].name, rows |-> d[s].rows]]

\* the statement loop has ended on the failure of a statement
StatementFailed ==
    pc = "done" /\ Len(StmtLog) > 0 /\ ~StmtLog[Len(StmtLog)].ok

(***************************************************************************)
(* Properties.                                                             *)
(***************************************************************************)
\* C1: every statement of the user's text is executed with the search path
\* set to the tenant's own schema, whatever the text contains.
C1_OwnSearchPath ==
    \A n \in 1..Len(dbLog) :
        (dbLog[n].kind = "stmt" /\ dbLog[n].no > 1) => dbLog[n].path = call.schemaName

\* C2: a query that holds a schema-qualified reference x.y, x being neither
\* the tenant's schema nor public nor information_schema, is denied by
\* validateUserSchemaAccess with 'Cannot access schema' and the call returns
\* success:false.
C2_ForeignReferenceDenied ==
    (JustChecked /\ HasForeignReference(call.query, call.username)) =>
        /\ ~validateUserSchemaAccess(trim(call.query), call.username).isValid
        /\ includes(validateUserSchemaAccess(trim(call.query), call.username).error,
                    "Cannot access schema")
        /\ pc = "done" /\ ~result.success

\* C3: a call rejected by its checks (empty query, schemaname literal,
\* validator, dangerous pattern) has made no call to the database.
C3_RejectedWithoutCall ==
    (pc = "done" /\ call.stage \in {"empty", "schemaname", "validator", "dangerous"}) =>
        ~result.success /\ dbLog = <<>> /\ db = dbBefore /\ tdb = dbBefore

C3_Witness ==
    pc = "done" /\ call.stage = "validator" /\ ~result.success /\ dbLog = <<>>

\* C4: a query in which one of the nine dangerous forms occurs is answered
\* success:false and nothing of it is executed.
C4_DangerousRefused ==
    (JustChecked /\ MatchesDangerousForm(call.query)) => Refused

C4_Witness ==
    /\ Refused
    /\ call.stage = "dangerous"
    /\ MatchesDangerousForm(call.query)
    /\ result.error = "Operation not allowed for security reasons"

C6_PublicReferenceDenied ==
    (JustChecked /\ ReferencesPublic(call.query)) =>
        /\ ~validateUserSchemaAccess(trim(call.query), call.username).isValid
        /\ Refused

\* C7: a query that names information_schema or a pg_ catalog and does not
\* filter by the tenant's own schema is denied.
C7_CatalogNeedsOwnFilter ==
    (JustChecked /\ NamesCatalog(call.query)
                 /\ ~FiltersOwnSchema(call.query, call.schemaName)) =>
        Refused

\* C8: a batch is atomic: when the call returns, either every statement was
\* executed and took effect and the result is a success with the rows of
\* all of them, or the result is a failure and the tables are as they were
\* before the call.
C8_AtomicBatch ==
    (pc = "done" /\ Len(call.queries) > 0) =>
        IF result.success
        THEN /\ Len(StmtLog) = Len(call.queries)
             /\ \A n \in 1..Len(StmtLog) : StmtLog[n].ok
             /\ db = tdb
             /\ result.rowCount = Len(result.data)
        ELSE Tables(db) = Tables(dbBefore)

\* C9: the failure returned for a failing statement names the statement by
\* its number and its text, whatever the error of the database.
C9_FailureNamesStatement ==
    StatementFailed =>
        /\ includes(result.error, "statement " \o NumStr(call.i))
        /\ includes(result.error, call.queries[call.i])

\* C10: the statements are executed in the order of the split list, and none
\* is executed after one that failed: what was executed is a prefix of the
\* list.
C10_ExecutedIsPrefix ==
    /\ Len(StmtLog) <= Len(call.queries)
    /\ \A n \in 1..Len(StmtLog) :
           /\ StmtLog[n].no = n
           /\ StmtLog[n].text = queryToExecute(call.queries[n])
           /\ StmtLog[n].ok \/ n = Len(StmtLog)

C10_Witness ==
    /\ StatementFailed
    /\ Len(StmtLog) >= 2
    /\ Len(StmtLog) < Len(call.queries)
    /\ \A n \in 1..(Len(StmtLog) - 1) : StmtLog[n].ok

\* C11: in a call that reaches the statement loop the first statement
\* executed is SET search_path TO the tenant's schema, and the session it
\* ran in is the one of the user's statements: the first of them finds the
\* search path that statement set.
C11_SetPathFirstSameSession ==
    /\ Len(StmtLog) >= 1 =>
           /\ StmtLog[1].text = "SET search_path TO \"" \o call.schemaName \o "\""
           /\ StmtLog[1].no = 1
    /\ Len(StmtLog) >= 2 => StmtLog[1].ok /\ StmtLog[2].path = call.schemaName

C11_Witness ==
    /\ Len(StmtLog) >= 2
    /\ StmtLog[2].ok
    /\ StmtLog[2].text = "SELECT * FROM t;"
    /\ StmtLog[2].path = call.schemaName

\* C12: executeUserQuery never throws: whatever the user, the query and the
\* database call that fails, the call ends by returning a QueryResult, and
\* a result whose success is false carries an error that is not empty.
C12_AlwaysReturnsResult ==
    /\ pc \in {"idle", "setup", "tx", "done"}
    /\ pc = "done" =>
           /\ result.success \in BOOLEAN
           /\ result.success \/ result.error # ""
    /\ (Len(dbLog) > 0 /\ ~dbLog[Len(dbLog)].ok) => pc = "done" /\ ~result.success

C12_Witness ==
    /\ pc = "done"
    /\ Len(dbLog) > 0
    /\ dbLog[1].kind = "schema"
    /\ ~dbLog[1].ok
    /\ result = failureResult("Failed to set up user workspace")

\* C13: the derivation of the schema name is idempotent, and its result
\* holds only characters of [a-zA-Z0-9_] (one for each character of the
\* user name).
C13_SchemaNameIdempotent ==
    /\ pc \in {"derived", "rederived"} =>
           /\ Len(call.schemaName) = Len(call.username)
           /\ \A i \in 1..Len(call.schemaName) : Ch(call.schemaName, i) \in WordChars
    /\ pc = "rederived" => call.schemaName = sanitizeSchemaName(call.username)

C13_Witness ==
    /\ pc = "rederived"
    /\ call.username = "a@."
    /\ call.schemaName = "a__"

\* the statements of the user's text, as they are sent to the database
UserStatements(query, schemaName) ==
    SubSeq(splitQueries(schemaName, trim(query)), 2,
           Len(splitQueries(schemaName, trim(query))))

\* the statement read by the database names no schema, or the tenant's own,
\* and no catalog
NamesOwnSchemaOnly(st, schemaName) ==
    /\ st.op \in {"select", "insert", "create", "setpath"}
    /\ ~IsCatalog(st)
    /\ st.op = "setpath" => st.schema = schemaName
    /\ st.parts = 1 \/ (st.parts = 2 /\ st.schema = schemaName)

MentionsOwnSchemaOnly(query, schemaName) ==
    /\ Len(UserStatements(query, schemaName)) > 0
    /\ SchemaNameLiterals(query) \subseteq {schemaName}
    /\ \A n \in 1..Len(UserStatements(query, schemaName)) :
           NamesOwnSchemaOnly(DbParse(UserStatements(query, schemaName)[n]), schemaName)

\* C14: a query whose statements name no schema other than the tenant's own
\* passes validateUserSchemaAccess and reaches execution, a dotted string
\* literal, a decimal number or a column qualified by its table included.
C14_OwnSchemaQueryPasses ==
    (JustChecked /\ MentionsOwnSchemaOnly(call.query, call.schemaName)) =>
        /\ validateUserSchemaAccess(trim(call.query), call.username).isValid
        /\ pc = "setup"

\* C15: a submitted query that yields no statement once split on ';' and
\* cleared of blank fragments is answered by an error result, and no
\* statement is executed for it.
C15_NoStatementRejected ==
    (pc \in {"tx", "done"} /\ Len(UserStatements(call.query, call.schemaName)) = 0) =>
        /\ StmtLog = <<>>
        /\ pc = "done" => ~result.success

\* the result has rows to show
HasRows(r) == "data" \in r.fields /\ Len(r.data) > 0

\* C16, as stated: a result with success:false is rendered as exactly
\* 'ERROR: <error>', and a successful result whose data is empty or absent
\* as exactly its message.
C16_RendersErrorOrMessage ==
    pc = "formatted" =>
        /\ (~result.success /\ "error" \in result.fields) =>
               display = <<"ERROR: " \o result.error>>
        /\ (result.success /\ ~HasRows(result) /\ "message" \in result.fields) =>
               display = <<result.message>>

\* C16, amended: the same for a message that is not empty; a successful
\* result without rows whose message is empty or absent is rendered as
\* 'Query executed successfully'.
C16_RendersErrorOrNonEmptyMessage ==
    pc = "formatted" =>
        /\ (~result.success /\ "error" \in result.fields) =>
               display = <<"ERROR: " \o result.error>>
        /\ (result.success /\ ~HasRows(result)) =>
               IF "message" \in result.fields /\ result.message # ""
               THEN display = <<result.message>>
               ELSE display = <<"Query executed successfully">>

C16_Witness ==
    /\ pc = "formatted"
    /\ result.success
    /\ result.fields = {"message", "data"}
    /\ result.data = <<>>
    /\ result.message = "Statement 1: 0 row(s) returned."
    /\ display = <<"Statement 1: 0 row(s) returned.">>

\* C17: getUserSchemaInfo never fails its caller: when a catalog request
\* throws it returns {tables: [], totalTables: 0}; for a tenant whose schema
\* has no table it returns totalTables 0, and formatSchemaForAI then gives
\* the text 'No tables found'.
C17_InfoNeverFails ==
    /\ pc \in {"info", "tables", "columns", "sample", "returned", "described"}
    /\ (Len(dbLog) > 0 /\ dbLog[Len(dbLog)].text = "") => pc \in {"returned", "described"}
    /\ (pc \in {"returned", "described"}
          /\ \E n \in 1..Len(dbLog) : ~dbLog[n].ok /\ dbLog[n].text = "") => info = NoInfo
    /\ (pc \in {"returned", "described"}
          /\ tablesOfSchema(db, sanitizeSchemaName(call.username)) = <<>>) =>
           info.totalTables = 0
    /\ (pc = "described" /\ info.totalTables = 0) =>
           /\ Len(display) = 1
           /\ startsWith(display[1], "No tables found")

C17_Witness ==
    /\ pc = "described"
    /\ call.schemaName \in Tenants
    /\ db[call.schemaName].exists
    /\ ~db[call.schemaName].hasTable
    /\ \A n \in 1..Len(dbLog) : dbLog[n].ok
    /\ info = [tables |-> <<>>, totalTables |-> 0]
    /\ display = <<"No tables found in the user's schema. The user needs to create tables first.">>

\* C18: every row of the SchemaInfo that getUserSchemaInfo returns for a
\* tenant was read from a table of the tenant's own schema.
C18_InfoRowsAreOwn ==
    pc \in {"returned", "described"} =>
        \A n \in 1..Len(info.tables) :
            \A k \in 1..Len(info.tables[n].sampleData) :
                info.tables[n].sampleData[k].schema = call.schemaName

\* the largest id of the rows
LargestId(sampleData) ==
    CHOOSE m \in {sampleData[n].id : n \in 1..Len(sampleData)} :
        \A n \in 1..Len(sampleData) : sampleData[n].id <= m

\* the table has rows and an integer primary key
HasIntegerKey(table) ==
    /\ Len(table.sampleData) > 0
    /\ \E n \in 1..Len(table.columns) :
           table.columns[n].isPrimaryKey /\ table.columns[n].dataType \in {"integer", "bigint"}

\* C19: for a table that has rows and an integer primary key, the next
\* available primary key that formatSchemaForAI reports is the largest
\* value of the column plus 1 (the values 1, 2, 3 give 4).
C19_NextKeyIsMaxPlusOne ==
    pc = "described" =>
        \A n \in 1..Len(info.tables) :
            HasIntegerKey(info.tables[n]) =>
                includes(display[1],
                         "Next available primary key values should start from: {\"id\":"
                             \o NumStr(LargestId(info.tables[n].sampleData) + 1) \o "}\n")

C19_Witness ==
    /\ pc = "described"
    /\ Len(info.tables) = 1
    /\ HasIntegerKey(info.tables[1])
    /\ info.tables[1].sampleData = <<[id |-> 3], [id |-> 1], [id |-> 2]>>
    /\ includes(display[1], "should start from: {\"id\":4}\n")

(***************************************************************************)
(* The /ai command of the terminal: handleAICommand                        *)
(* (src/unnamed/part_000:620-787).  The symbol that leads some lines is     *)
(* left out.  POST /api/sql/execute runs executeUserQuery for the user of  *)
(* the terminal.  requests is the list of the endpoints asked so far.      *)
(***************************************************************************)
MaxCommands == 2

\* part_000:631
maxRetries == 2

AgentStatements == {"SELECT * FROM t", "INSERT INTO t VALUES (1)", "SELECT * FROM u"}

\* ai-agent.ts:310-313: every command ends with a semicolon
CommandLists == UNION { [1..n -> { q \o ";" : q \in AgentStatements }] : n \in 1..MaxCommands }

\* what executeUserQuery gave the agent that ran its query itself
ExecutionResults ==
    { successResult(<<>>, 0, <<"Statement 1: 0 row(s) returned.">>),
      failureResult("Table or relation does not exist") }

\* the answers of POST /api/ai/agent: the commands left to the caller
\* (ai-agent.ts:353-359), the query the agent ran itself (ai-agent.ts:582-586),
\* the failure (ai-agent.ts:336-349).  "" is null for sqlQuery, <<>> is no
\* sqlCommands, NoResult is null for executionResult.
AgentResponses ==
    { [success |-> TRUE, sqlCommands |-> c, sqlQuery |-> "", executionResult |-> NoResult,
       error |-> ""] : c \in CommandLists }
    \cup { [success |-> TRUE, sqlCommands |-> <<>>, sqlQuery |-> "SELECT * FROM t;",
            executionResult |-> r, error |-> ""] : r \in ExecutionResults }
    \cup { [success |-> FALSE, sqlCommands |-> <<>>, sqlQuery |-> "",
            executionResult |-> NoResult, error |-> "AI failed to generate SQL commands"] }

\* the answers of POST /api/ai/generate-sql (ai-sql-generator.ts:86-103)
GeneratorResponses ==
    { [success |-> TRUE, sqlQuery |-> q \o ";", error |-> ""] : q \in AgentStatements }
    \cup { [success |-> FALSE, sqlQuery |-> "", error |-> "Failed to generate SQL query"] }

addLine(type, content) == [type |-> type, content |-> content, isLoader |-> FALSE]

\* setLines(prevLines => [...prevLines, { ..., isLoader: true, loaderMessage }])
loaderLine(loaderMessage) == [type |-> "output", content |-> loaderMessage, isLoader |-> TRUE]

IsNoLoader(line) == ~line.isLoader

\* setLines(prevLines => prevLines.filter(line => !line.isLoader))
removeLoaders(lines) == SelectSeq(lines, IsNoLoader)

\* part_000:834: the input area is rendered
PromptShown(lines, isLoading, isExecutingSQL) ==
    ~isLoading /\ ~isExecutingSQL /\ \A n \in 1..Len(lines) : ~lines[n].isLoader

\* result.error || 'Failed to generate SQL'
aiError(r) ==
    addLine("error", "AI Error: " \o (IF r.error # "" THEN r.error ELSE "Failed to generate SQL"))

\* lines 700-731: the lines shown for the outcome of a query, and where the
\* command goes next
\* the retry taken once more than maxRetries allows
retriesOnceMore(executeResult, retryCount) ==
    ~executeResult.success /\ retryCount <= maxRetries

retries(executeResult, retryCount) == ~executeResult.success /\ retryCount < maxRetries

outcomeLines(executeResult, retryCount, isRetry) ==
    IF executeResult.success
    THEN <<addLine("output", formatQueryResult(executeResult))>>
         \o (IF isRetry
             THEN <<addLine("success", "Query executed successfully after " \o NumStr(retryCount)
                                       \o (IF retryCount = 1 THEN " retry!" ELSE " retries!"))>>
             ELSE <<>>)
         \o <<addLine("output", "")>>
    ELSE IF retryCount < maxRetries
    THEN <<>>
    ELSE <<addLine("error", formatQueryResult(executeResult)),
           addLine("error", "Failed to generate working query after " \o NumStr(maxRetries)
                            \o " retries."),
           addLine("output", "Try rephrasing your request or check if the tables/columns exist."),
           addLine("output", "")>>

Prompted(u) ==
    [at |-> "prompt", username |-> u, result |-> CHOOSE r \in AgentResponses : ~r.success,
     query |-> "", retryCount |-> 0, posted |-> <<>>, unanswered |-> FALSE,
     requests |-> <<>>]

InitTerminal ==
    /\ pc = "idle"
    /\ call = NoCall
    /\ session = DefaultSession
    /\ db \in InitialDatabases
    /\ tdb = db
    /\ dbBefore = db
    /\ dbLog = <<>>
    /\ result = NoResult
    /\ info = NoInfo
    /\ display = <<addLine("output", "Generating SQL for: \"show t\""), addLine("output", ""),
                    loaderLine("Generating SQL...")>>
    /\ \E u \in Tenants : terminal = Prompted(u)

executorVars == <<pc, call, session, db, tdb, dbBefore, dbLog, result, info>>

\* lines 641-679, 733-735: the agent answers; a result with a query is shown,
\* any other result sends the command to the fallback
AgentAnswers ==
    /\ terminal.at = "prompt"
    /\ \E r \in AgentResponses :
           IF r.success /\ r.sqlQuery # ""
           THEN /\ display' = removeLoaders(display)
                        \o <<addLine("success", "Generated SQL: " \o r.sqlQuery),
                             addLine("output", "")>>
                        \o outcomeLines(r.executionResult, 0, FALSE)
                /\ terminal' = [terminal EXCEPT
                       !.requests = Append(@, "/api/ai/agent"),
                       !.result = r, !.query = r.sqlQuery,
                       !.at = IF retries(r.executionResult, 0) THEN "retry" ELSE "end",
                       !.retryCount = IF retries(r.executionResult, 0) THEN 1 ELSE 0]
           ELSE /\ display' = removeLoaders(display)
                /\ terminal' = [terminal EXCEPT !.requests = Append(@, "/api/ai/agent"),
                                                !.result = r, !.at = "fallback"]
    /\ UNCHANGED executorVars

\* lines 738-774: the fallback generator answers
FallbackAnswers ==
    /\ terminal.at = "fallback"
    /\ \E f \in GeneratorResponses :
           IF f.success /\ f.sqlQuery # ""
           THEN /\ display' = display
                        \o <<addLine("success", "Generated SQL: " \o f.sqlQuery),
                             addLine("output", ""), loaderLine("Executing query...")>>
                /\ terminal' = [terminal EXCEPT !.requests = Append(@, "/api/ai/generate-sql"),
                                                !.query = f.sqlQuery, !.at = "execute"]
           ELSE /\ display' = display \o <<aiError(terminal.result), addLine("output", "")>>
                /\ terminal' = [terminal EXCEPT !.requests = Append(@, "/api/ai/generate-sql"),
                                                !.at = "end"]
    /\ UNCHANGED executorVars

\* lines 641-698, 778-780 in a retry: the generator answers with the error
\* and the query of the attempt before
RetryAnswers ==
    /\ terminal.at = "retry"
    /\ \E f \in GeneratorResponses :
           IF f.success /\ f.sqlQuery # ""
           THEN /\ display' = display
                /\ terminal' = [terminal EXCEPT !.requests = Append(@, "/api/ai/generate-sql"),
                                                !.query = f.sqlQuery, !.at = "execute"]
           ELSE /\ display' = display \o <<aiError(f), addLine("output", "")>>
                /\ terminal' = [terminal EXCEPT !.requests = Append(@, "/api/ai/generate-sql"),
                                                !.at = "end"]
    /\ UNCHANGED executorVars

\* lines 689-695, 753-759: POST /api/sql/execute
PostExecute ==
    /\ terminal.at = "execute"
    /\ Call(terminal.username, terminal.query)

\* lines 697-731, 761-770: the answer of POST /api/sql/execute is shown
ShowResult ==
    /\ terminal.at = "execute"
    /\ pc = "done"
    /\ pc' = "idle"
    /\ display' = removeLoaders(display)
           \o (IF terminal.retryCount = 0
               THEN <<addLine(IF result.success THEN "output" ELSE "error",
                              formatQueryResult(result)),
                      addLine("output", "")>>
               ELSE outcomeLines(result, terminal.retryCount, TRUE))
    /\ terminal' = [terminal EXCEPT
           !.posted = Append(@, [query |-> terminal.query, success |-> result.success]),
           !.requests = Append(@, "/api/sql/execute"),
           !.at = IF terminal.retryCount > 0 /\ retries(result, terminal.retryCount)
                  THEN "retry" ELSE "end",
           !.retryCount = IF terminal.retryCount > 0 /\ retries(result, terminal.retryCount)
                          THEN @ + 1 ELSE @]
    /\ UNCHANGED <<call, session, db, tdb, dbBefore, dbLog, result, info>>

\* the request the command is waiting for
pendingRequest(t) ==
    CASE t.at = "prompt" -> "/api/ai/agent"
      [] t.at = "execute" -> "/api/sql/execute"
      [] OTHER -> "/api/ai/generate-sql"

\* lines 775-777 (the catch of the fallback, which leaves the lines as they
\* are), 784-789 (the catch of the command, which removes the loaders): a
\* request of the terminal is not answered
FetchFails ==
    /\ terminal.at \in {"prompt", "fallback", "retry"} \/ (terminal.at = "execute" /\ pc = "idle")
    /\ display' =
           IF terminal.at = "fallback" \/ (terminal.at = "execute" /\ terminal.retryCount = 0)
           THEN display \o <<aiError(terminal.result), addLine("output", "")>>
           ELSE removeLoaders(display)
                \o <<addLine("error", "ERROR: Failed to process AI command"),
                     addLine("output", "")>>
    /\ terminal' = [terminal EXCEPT !.at = "end", !.unanswered = TRUE,
                                    !.requests = Append(@, pendingRequest(terminal))]
    /\ UNCHANGED executorVars

NextTerminal ==
    \/ AgentAnswers
    \/ FallbackAnswers
    \/ RetryAnswers
    \/ PostExecute
    \/ CreateSchema
    \/ CreateSchemaFails
    \/ StatementSucceeds
    \/ StatementFails
    \/ RequestFails
    \/ Commit
    \/ ShowResult
    \/ FetchFails

SpecTerminal == InitTerminal /\ [][NextTerminal]_vars

\* the agent answered with success and a list of commands
CommandsAnswered ==
    terminal.at # "prompt" /\ terminal.result.success /\ terminal.result.sqlCommands # <<>>

\* the queries the terminal has sent to the executor are the first n commands,
\* none of them after a failed one
PostedArePrefix(sqlCommands, posted) ==
    /\ Len(posted) <= Len(sqlCommands)
    /\ \A n \in 1..Len(posted) :
           /\ posted[n].query = sqlCommands[n]
           /\ n < Len(posted) => posted[n].success

\* C20: when the agent returns success with sqlCommands, the terminal sends
\* the commands to the executor one at a time in array order, and once the
\* command is over it has sent all of them, or the last one it sent failed
C20_CommandsRunInOrder ==
    (CommandsAnswered /\ ~terminal.unanswered) =>
        /\ PostedArePrefix(terminal.result.sqlCommands, terminal.posted)
        /\ terminal.at = "end" =>
               \/ Len(terminal.posted) = Len(terminal.result.sqlCommands)
               \/ /\ terminal.posted # <<>>
                  /\ ~terminal.posted[Len(terminal.posted)].success

\* every request of a command is answered or fails, and the executor goes
\* on: weak fairness of NextTerminal, which has a step to take in every state
\* but those where the command has ended
SpecTerminalLive ==
    SpecTerminal /\ ([]<>(terminal.at = "end") \/ []<><<NextTerminal>>_vars)

\* some line of the given type begins with the text
Shows(type, text) ==
    \E n \in 1..Len(display) :
        display[n].type = type /\ ~display[n].isLoader /\ HasAt(display[n].content, 1, text)

\* a query generated for the command failed when it was executed
ExecutionFailed ==
    /\ terminal.at # "prompt"
    /\ \/ terminal.result.sqlQuery # "" /\ ~terminal.result.executionResult.success
       \/ \E n \in 1..Len(terminal.posted) : ~terminal.posted[n].success

GenerationRequests ==
    Len(SelectSeq(terminal.requests, LAMBDA e : e = "/api/ai/generate-sql"))

SuccessAfterRetries ==
    Shows("success", "Query executed successfully after " \o NumStr(terminal.retryCount) \o " retr")

FinalFailure ==
    Shows("error", "Failed to generate working query after " \o NumStr(maxRetries) \o " retries.")

RetriesBounded == terminal.retryCount <= maxRetries /\ GenerationRequests <= maxRetries

\* C21: after an execution failure of a generated query generation is asked
\* again at most maxRetries times, and the command always ends, with the
\* success line that reports the retry count or with the final failure of
\* maxRetries retries
C21_BoundedRetry ==
    /\ [](RetriesBounded
          /\ ((terminal.at = "end" /\ ExecutionFailed /\ ~terminal.unanswered)
                  => (SuccessAfterRetries \/ FinalFailure)))
    /\ <>(terminal.at = "end")

\* C21 as the code has it: the retries are bounded and the command always
\* ends; a command that entered the retries ends with the success line that
\* reports the retry count, with the final failure of maxRetries retries, or,
\* when a regeneration gives no query or is not answered, with the error
\* line of that regeneration
C21_BoundedRetryOrGenerationError ==
    /\ [](RetriesBounded
          /\ ((terminal.at = "end" /\ terminal.retryCount >= 1)
                  => \/ SuccessAfterRetries
                     \/ FinalFailure /\ terminal.retryCount = maxRetries
                     \/ Shows("error", "AI Error: ")
                     \/ Shows("error", "ERROR: Failed to process AI command")))
    /\ <>(terminal.at = "end")

C21_Witness ==
    /\ terminal.at = "end"
    /\ terminal.retryCount = maxRetries
    /\ Len(terminal.posted) = maxRetries
    /\ Shows("success", "Query executed successfully after 2 retries!")

\* C23: once an /ai command has ended, whatever request of it failed, no
\* loader line remains among the lines and the input prompt is rendered
\* again (handleAICommand leaves isLoading and isExecutingSQL false)
C23_PromptShownAfterCommand ==
    terminal.at = "end" => PromptShown(display, FALSE, FALSE)

(***************************************************************************)
(* The terminal before it is authenticated: handleKeyDown, handleCommand,  *)
(* handleAuthFlow, handleLogin and handleRegister.  There are two versions *)
(* of the component: src/unnamed/part_000, which sets isLoading and shows  *)
(* a loader line while a request is pending and renders the input only     *)
(* when neither is there (line 834), and src/components/sql-terminal.tsx,  *)
(* which has neither and renders the input always.  terminal.loaders tells *)
(* the first from the second.  Text is typed a word at a time into an      *)
(* empty input.  echoes is the list of the inputs echoed, each with the    *)
(* auth step in which it was typed.  The model follows the terminal until  *)
(* a login succeeds.                                                       *)
(***************************************************************************)
MaxKeys == 4

AuthWords == {"login", "register", "alice", "pw1"}

WelcomeText == "Welcome! Type LOGIN to sign in or REGISTER to create an account."

\* the useEffect that greets: part_000:104-112 looks at the last line,
\* sql-terminal.tsx:91-96 runs when authStep or isAuthenticated changes
withWelcome(lines, before, after) ==
    IF after.isAuthenticated \/ after.authStep # "ask" THEN lines
    ELSE IF after.loaders
    THEN IF lines # <<>> /\ lines[Len(lines)].content = WelcomeText THEN lines
         ELSE Append(lines, addLine("output", WelcomeText))
    ELSE IF before.authStep # after.authStep \/ before.isAuthenticated # after.isAuthenticated
    THEN Append(lines, addLine("output", WelcomeText))
    ELSE lines

getPrompt(t) ==
    IF ~t.isAuthenticated
    THEN CASE t.authStep = "ask" -> ""
           [] t.authStep = "username" -> "Enter user-name: "
           [] t.authStep = "password" -> "Enter password: "
    ELSE "SQL> "

\* the input as handleCommand and Ctrl+C echo it
displayInput(t) ==
    IF t.isPasswordInput THEN repeat("*", Len(t.currentInput)) ELSE t.currentInput

resetAuth(t) ==
    [t EXCEPT !.authStep = "ask", !.isAuthenticated = FALSE, !.isRegistering = FALSE,
              !.tempUsername = ""]

InputShown ==
    terminal.loaders => PromptShown(display, terminal.isLoading, FALSE)

InitAuth ==
    /\ pc = "idle"
    /\ call = NoCall
    /\ session = DefaultSession
    /\ db \in InitialDatabases
    /\ tdb = db
    /\ dbBefore = db
    /\ dbLog = <<>>
    /\ result = NoResult
    /\ info = NoInfo
    /\ display = <<addLine("output", WelcomeText)>>
    /\ \E loaders \in BOOLEAN :
           terminal = [loaders |-> loaders, currentInput |-> "", authStep |-> "ask",
                       isAuthenticated |-> FALSE, isRegistering |-> FALSE,
                       tempUsername |-> "", isPasswordInput |-> FALSE, isLoading |-> FALSE,
                       pending |-> <<>>, echoes |-> <<>>, keys |-> 0]

\* onChange of the textarea
TypeWord ==
    /\ ~terminal.isAuthenticated
    /\ InputShown
    /\ terminal.currentInput = ""
    /\ \E word \in AuthWords : terminal' = [terminal EXCEPT !.currentInput = word]
    /\ UNCHANGED <<executorVars, display>>

echo(t, shown) ==
    [authStep |-> t.authStep, input |-> t.currentInput, shown |-> shown]

\* handleKeyDown, Ctrl+C (part_000:119-133)
PressCtrlC ==
    /\ ~terminal.isAuthenticated
    /\ InputShown
    /\ terminal.keys < MaxKeys
    /\ terminal' = [terminal EXCEPT
           !.currentInput = "",
           !.keys = @ + 1,
           !.echoes = Append(@, echo(terminal, getPrompt(terminal) \o displayInput(terminal)
                                               \o "^C"))]
    /\ display' = withWelcome(
           Append(display, addLine("input", getPrompt(terminal) \o displayInput(terminal)
                                            \o "^C")),
           terminal, terminal')
    /\ UNCHANGED executorVars

\* handleAuthFlow (part_000:311-345) on the trimmed input; handleLogin and
\* handleRegister (347-431) as far as their request
handleAuthFlow(t, input) ==
    CASE t.authStep = "ask" ->
             IF toLowerCase(input) \in {"login", "register"}
             THEN [t EXCEPT !.isRegistering = (toLowerCase(input) = "register"),
                            !.authStep = "username", !.isPasswordInput = FALSE]
             ELSE t
      [] t.authStep = "username" ->
             [t EXCEPT !.tempUsername = toLowerCase(input), !.authStep = "password",
                       !.isPasswordInput = TRUE]
      [] t.authStep = "password" ->
             [t EXCEPT !.isPasswordInput = FALSE,
                       !.isLoading = t.loaders,
                       !.pending = Append(@, [register |-> t.isRegistering,
                                              username |-> t.tempUsername,
                                              password |-> input])]

authFlowLines(t, input) ==
    CASE t.authStep = "ask" /\ toLowerCase(input) \notin {"login", "register"} ->
             <<addLine("error", "Invalid command. Please type LOGIN or REGISTER.")>>
      [] t.authStep = "password" /\ t.loaders ->
             <<loaderLine(IF t.isRegistering THEN "Creating account..." ELSE "Connecting...")>>
      [] OTHER -> <<>>

\* handleKeyDown, Enter, and handleCommand (part_000:136-140, 274-300)
PressEnter ==
    /\ ~terminal.isAuthenticated
    /\ InputShown
    /\ terminal.keys < MaxKeys
    /\ terminal' = [handleAuthFlow(terminal, trim(terminal.currentInput)) EXCEPT
           !.currentInput = "",
           !.keys = @ + 1,
           !.echoes = Append(@, echo(terminal, getPrompt(terminal) \o displayInput(terminal)))]
    /\ display' = withWelcome(
           display \o <<addLine("input", getPrompt(terminal) \o displayInput(terminal))>>
                   \o authFlowLines(terminal, trim(terminal.currentInput)),
           terminal, terminal')
    /\ UNCHANGED executorVars

\* the lines of a login or registration that succeeded; the time of the
\* login is not modelled
connectedLines(request) ==
    (IF request.register
     THEN <<addLine("success", "Account created for user: " \o request.username)>>
     ELSE <<>>)
    \o <<addLine("success", "Last Successful login time: "),
         addLine("output", ""),
         addLine("output", "Connected to:"),
         addLine("output", "Oracle Database 21c Express Edition Release 21.0.0.0.0 - Production"),
         addLine("output", "Version 21.3.0.0.0"),
         addLine("output", "")>>

refusedLines(request, message) ==
    <<addLine("error", "ERROR:"),
      addLine("error", (IF request.register THEN "ORA-00955: " ELSE "ORA-01005: ") \o message),
      addLine("output", "")>>

AuthMessages == {"Invalid username or password"}

\* the list without its element n
without(list, n) == SubSeq(list, 1, n - 1) \o SubSeq(list, n + 1, Len(list))

\* part_000:357-380, 404-425: the answer of /api/auth/login or
\* /api/auth/register arrives
AuthAnswers ==
    \E n \in 1..Len(terminal.pending) :
        \E success \in BOOLEAN, message \in AuthMessages :
            /\ terminal' =
                   [(IF success
                     THEN [terminal EXCEPT !.isAuthenticated = TRUE, !.isRegistering = FALSE]
                     ELSE resetAuth(terminal))
                    EXCEPT !.isLoading = FALSE, !.pending = without(@, n)]
            /\ display' = withWelcome(
                   removeLoaders(display)
                       \o (IF success THEN connectedLines(terminal.pending[n])
                           ELSE refusedLines(terminal.pending[n], message)),
                   terminal, terminal')
            /\ UNCHANGED executorVars

\* part_000:381-388, 426-433: the request is not answered
AuthFails ==
    \E n \in 1..Len(terminal.pending) :
        /\ terminal' = [resetAuth(terminal) EXCEPT !.isLoading = FALSE,
                                                    !.pending = without(@, n)]
        /\ display' = withWelcome(
               removeLoaders(display)
                   \o <<addLine("error", IF terminal.pending[n].register
                                         THEN "Account creation failed"
                                         ELSE "Connection failed")>>,
               terminal, terminal')
        /\ UNCHANGED executorVars

NextAuth ==
    \/ TypeWord
    \/ PressCtrlC
    \/ PressEnter
    \/ AuthAnswers
    \/ AuthFails

SpecAuth == InitAuth /\ [][NextAuth]_vars

\* C27: every line that echoes an input typed at the password prompt, whether
\* submitted or cancelled, shows one asterisk for each character typed and
\* nothing of the text, also while a login or registration is pending
C27_PasswordEchoedAsAsterisks ==
    \A n \in 1..Len(terminal.echoes) :
        (terminal.echoes[n].authStep = "password" /\ terminal.echoes[n].input # "") =>
            /\ HasAt(terminal.echoes[n].shown, 1,
                     "Enter password: " \o repeat("*", Len(terminal.echoes[n].input)))
            /\ ~includes(terminal.echoes[n].shown, terminal.echoes[n].input)

(***************************************************************************)
(* The authenticated terminal of src/unnamed/part_000: handleKeyDown,      *)
(* handleCommand and handleSQLCommand.  Text is typed a word at a time, at  *)
(* the start of a line, and a semicolon anywhere.  entered is the input on which Enter was last     *)
(* pressed, submitted the input last handed to handleSQLCommand, requests  *)
(* the endpoints asked since.  An /ai command is followed as far as its    *)
(* first request; SpecTerminal has the rest of it.                         *)
(***************************************************************************)
MaxEvents == 5

SqlWords ==
    {"SELECT * FROM t", ";", "/ai show t", "show tables", "help", "exit", "clear scr"}

\* String.prototype.endsWith
endsWith(s, lit) == Len(s) >= Len(lit) /\ HasAt(s, Len(s) - Len(lit) + 1, lit)

specialCommands == {"exit", "quit", "clear scr", "clear screen", "help", "show tables"}

\* the first line break of s at or after position p, 0 if there is none
LineBreak(s, p) ==
    IF \E i \in p..Len(s) : Ch(s, i) = "\n"
    THEN CHOOSE i \in p..Len(s) : Ch(s, i) = "\n" /\ \A j \in p..(i - 1) : Ch(s, j) # "\n"
    ELSE 0

\* how many digits line begins with
LeadingDigits(line) ==
    CHOOSE d \in 0..Len(line) :
        /\ \A i \in 1..d : Ch(line, i) \in DigitChars
        /\ d < Len(line) => Ch(line, d + 1) \notin DigitChars

\* line.replace(/^\d+\)\s/, '')
removeLineNumber(line) ==
    IF /\ LeadingDigits(line) >= 1
       /\ Ch(line, LeadingDigits(line) + 1) = ")"
       /\ Ch(line, LeadingDigits(line) + 2) \in SpaceChars
    THEN SubSeq(line, LeadingDigits(line) + 3, Len(line))
    ELSE line

\* part_000:445-455: the lines after the first without their numbers
RECURSIVE cleanLines(_, _)
cleanLines(s, first) ==
    IF LineBreak(s, 1) = 0
    THEN IF first THEN s ELSE removeLineNumber(s)
    ELSE (IF first THEN SubSeq(s, 1, LineBreak(s, 1) - 1)
          ELSE removeLineNumber(SubSeq(s, 1, LineBreak(s, 1) - 1)))
         \o "\n" \o cleanLines(SubSeq(s, LineBreak(s, 1) + 1, Len(s)), FALSE)

cleanInput(input) == cleanLines(input, TRUE)

\* the text after the last line break
RECURSIVE lastLineOf(_)
lastLineOf(s) ==
    IF LineBreak(s, 1) = 0 THEN s ELSE lastLineOf(SubSeq(s, LineBreak(s, 1) + 1, Len(s)))

\* part_000:459-468
historyItem(cleanedInput) ==
    [fullCommand |-> cleanedInput,
     lastLine |-> IF trim(lastLineOf(cleanedInput)) # "" THEN trim(lastLineOf(cleanedInput))
                  ELSE cleanedInput]

withHistory(commandHistory, cleanedInput) ==
    IF cleanedInput # ""
       /\ \A n \in 1..Len(commandHistory) : commandHistory[n].fullCommand # cleanedInput
    THEN Append(commandHistory, historyItem(cleanedInput))
    ELSE commandHistory

\* the mutant of isAICommand that takes every input for an /ai command
isAICommandAlways(input) == TRUE

\* ai-sql-generator.ts:226-228
isAICommand(input) == startsWith(toLowerCase(trim(input)), "/ai ")

\* ai-sql-generator.ts:230-232
extractAIPrompt(input) == trim(SubSeq(trim(input), 5, Len(trim(input))))

\* part_000:483-489
showTablesQuery(username) ==
    "\n        SELECT tablename\n        FROM pg_tables\n        WHERE schemaname = '"
    \o sanitizeSchemaName(username)
    \o "'\n        ORDER BY tablename\n      "

InitUI ==
    /\ pc = "idle"
    /\ call = NoCall
    /\ session = DefaultSession
    /\ db = [sch \in SchemaNames |-> IF sch = "public" THEN PublicSchema ELSE NoSchema]
    /\ tdb = db
    /\ dbBefore = db
    /\ dbLog = <<>>
    /\ result = NoResult
    /\ info = NoInfo
    /\ display = <<>>
    /\ \E u \in {"alice"} :
           terminal = [isAuthenticated |-> TRUE, authStep |-> "password", username |-> u,
                       currentInput |-> "", currentLineNumber |-> 1,
                       commandHistory |-> <<>>, historyIndex |-> -1,
                       showingFullCommand |-> FALSE, isPasswordInput |-> FALSE,
                       isExecutingSQL |-> FALSE, isHelpModalOpen |-> FALSE,
                       command |-> "", waiting |-> FALSE, query |-> "", requests |-> <<>>,
                       entered |-> "", submitted |-> "", events |-> 0]

\* the textarea takes a key
KeyTaken ==
    /\ terminal.isAuthenticated
    /\ PromptShown(display, FALSE, terminal.isExecutingSQL)
    /\ terminal.events < MaxEvents

\* onChange of the textarea
TypeSql ==
    /\ KeyTaken
    /\ \E word \in SqlWords :
           /\ \/ word = ";"
              \/ terminal.currentInput = ""
              \/ endsWith(terminal.currentInput, ") ")
           /\ terminal' = [terminal EXCEPT !.currentInput = @ \o word, !.events = @ + 1]
    /\ UNCHANGED <<executorVars, display>>

\* handleKeyDown, Ctrl+C (part_000:119-133)
CancelInput ==
    /\ KeyTaken
    /\ terminal' = [terminal EXCEPT !.currentInput = "", !.events = @ + 1]
    /\ display' = Append(display, addLine("input", getPrompt(terminal)
                                                    \o displayInput(terminal) \o "^C"))
    /\ UNCHANGED executorVars

\* handleKeyDown, Tab (part_000:148-159) with the caret at the end, and
\* Shift+Enter (part_000:164-167)
InsertBreak ==
    /\ KeyTaken
    /\ \E key \in {"\t", "\n"} :
           terminal' = [terminal EXCEPT !.currentInput = @ \o key, !.events = @ + 1]
    /\ UNCHANGED <<executorVars, display>>

\* commandHistory[commandHistory.length - 1 - index]
historyAt(t, index) == t.commandHistory[Len(t.commandHistory) - index]

\* handleKeyDown, ArrowUp (part_000:190-223)
PressArrowUp ==
    /\ KeyTaken
    /\ terminal' =
           [(IF terminal.commandHistory # <<>>
                /\ terminal.historyIndex < Len(terminal.commandHistory) - 1
             THEN [terminal EXCEPT
                      !.historyIndex = @ + 1,
                      !.currentInput = historyAt(terminal, terminal.historyIndex + 1).lastLine,
                      !.showingFullCommand = FALSE]
             ELSE IF /\ terminal.historyIndex >= 0
                     /\ ~terminal.showingFullCommand
                     /\ historyAt(terminal, terminal.historyIndex).fullCommand
                            # historyAt(terminal, terminal.historyIndex).lastLine
             THEN [terminal EXCEPT
                      !.currentInput = historyAt(terminal, terminal.historyIndex).fullCommand,
                      !.showingFullCommand = TRUE]
             ELSE terminal)
            EXCEPT !.events = @ + 1]
    /\ UNCHANGED <<executorVars, display>>

\* handleKeyDown, ArrowDown (part_000:224-268)
PressArrowDown ==
    /\ KeyTaken
    /\ terminal' =
           [(IF terminal.showingFullCommand
             THEN [terminal EXCEPT
                      !.currentInput = historyAt(terminal, terminal.historyIndex).lastLine,
                      !.showingFullCommand = FALSE]
             ELSE IF terminal.historyIndex > 0
             THEN [terminal EXCEPT
                      !.historyIndex = @ - 1,
                      !.currentInput = historyAt(terminal, terminal.historyIndex - 1).lastLine,
                      !.showingFullCommand = FALSE]
             ELSE IF terminal.historyIndex = 0
             THEN [terminal EXCEPT !.historyIndex = -1, !.currentInput = "",
                                   !.showingFullCommand = FALSE]
             ELSE terminal)
            EXCEPT !.events = @ + 1]
    /\ UNCHANGED <<executorVars, display>>

\* the branch of handleSQLCommand (part_000:477-579) that takes the input
commandKind(cleanedInput) ==
    CASE toLowerCase(trim(cleanedInput)) \in {"clear scr", "clear screen"} -> "clear"
      [] toLowerCase(trim(cleanedInput)) = "show tables" -> "show tables"
      [] toLowerCase(trim(cleanedInput)) \in {"exit", "quit"} -> "exit"
      [] toLowerCase(trim(cleanedInput)) = "help" -> "help"
      [] trim(cleanedInput) = "" -> "empty"
      [] isAICommand(cleanedInput) ->
             IF extractAIPrompt(cleanedInput) = "" THEN "no prompt" ELSE "ai"
      [] OTHER -> "sql"

helpLines ==
    <<addLine("output", "Available commands:"),
      addLine("output", "  SQL commands - Execute any SQL query"),
      addLine("output", "  /ai <prompt> - Generate and execute SQL using AI"),
      addLine("output", "  clear scr - Clear the screen"),
      addLine("output", "  help - Show this help message (also opens detailed help)"),
      addLine("output", "  exit - Disconnect and logout"),
      addLine("output", ""),
      addLine("output", "AI Examples:"),
      addLine("output", "  /ai show me all tables"),
      addLine("output", "  /ai create a users table with id and name"),
      addLine("output", "  /ai find all records where name contains John"),
      addLine("output", ""),
      addLine("output", "Quick commands:"),
      addLine("output", "  SHOW TABLES - Show all your tables"),
      addLine("output", "")>>

\* the lines handleSQLCommand and handleAICommand add before they wait
commandLines(kind, cleanedInput) ==
    CASE kind = "show tables" -> <<loaderLine("Getting your tables...")>>
      [] kind = "exit" ->
             <<addLine("output", "Disconnected from Oracle Database 21c Express Edition Release 21.0.0.0.0 - Production"),
               addLine("output", ""), addLine("output", WelcomeText)>>
      [] kind = "help" -> helpLines
      [] kind = "no prompt" ->
             <<addLine("error", "Please provide a prompt after /ai command. Example: /ai show me all users"),
               addLine("output", "")>>
      [] kind = "ai" ->
             <<addLine("output", "Generating SQL for: \"" \o extractAIPrompt(cleanedInput) \o "\""),
               addLine("output", ""), loaderLine("Generating SQL...")>>
      [] kind = "sql" -> <<loaderLine("Executing query...")>>
      [] OTHER -> <<>>

\* handleCommand (part_000:274-300) and handleSQLCommand as far as its request
handleSQLCommand(t, kind, cleanedInput) ==
    [t EXCEPT
        !.currentInput = "", !.historyIndex = -1, !.showingFullCommand = FALSE,
        !.currentLineNumber = 1,
        !.commandHistory = withHistory(@, cleanedInput),
        !.submitted = cleanedInput,
        !.command = kind,
        !.isAuthenticated = (kind # "exit"),
        !.authStep = IF kind = "exit" THEN "ask" ELSE @,
        !.username = IF kind = "exit" THEN "" ELSE @,
        !.isHelpModalOpen = @ \/ kind = "help",
        !.isExecutingSQL = kind \in {"show tables", "sql"},
        !.waiting = kind \in {"show tables", "sql", "ai"},
        !.query = CASE kind = "show tables" -> showTablesQuery(t.username)
                    [] kind = "sql" -> cleanedInput
                    [] OTHER -> "",
        !.requests = CASE kind \in {"show tables", "sql"} -> <<"/api/sql/execute">>
                       [] kind = "ai" -> <<"/api/ai/agent">>
                       [] OTHER -> <<>>]

\* handleKeyDown, Enter (part_000:162-186): a complete command is handed to
\* handleCommand, any other input gets its next numbered line
SubmitOrContinue ==
    /\ KeyTaken
    /\ IF \/ endsWith(trim(terminal.currentInput), ";")
          \/ toLowerCase(trim(terminal.currentInput)) \in specialCommands
       THEN /\ terminal' =
                   [handleSQLCommand(terminal,
                                     commandKind(cleanInput(trim(terminal.currentInput))),
                                     cleanInput(trim(terminal.currentInput)))
                    EXCEPT !.entered = terminal.currentInput, !.events = @ + 1]
            /\ display' =
                   IF commandKind(cleanInput(trim(terminal.currentInput))) = "clear"
                   THEN <<>>
                   ELSE display
                        \o <<addLine("input", getPrompt(terminal) \o displayInput(terminal))>>
                        \o commandLines(commandKind(cleanInput(trim(terminal.currentInput))),
                                        cleanInput(trim(terminal.currentInput)))
       ELSE /\ terminal' =
                   [(IF trim(terminal.currentInput) # ""
                     THEN [terminal EXCEPT
                              !.currentInput =
                                  @ \o "\n" \o NumStr(terminal.currentLineNumber + 1) \o ") ",
                              !.currentLineNumber = @ + 1]
                     ELSE terminal)
                    EXCEPT !.entered = terminal.currentInput, !.events = @ + 1]
            /\ display' = display
    /\ UNCHANGED executorVars

\* part_000:590-609, 503-517: the answer of POST /api/sql/execute is shown
ExecuteAnswers ==
    /\ terminal.waiting
    /\ terminal.command \in {"sql", "show tables"}
    /\ \E r \in ExecutionResults :
           display' = removeLoaders(display)
               \o <<addLine(IF r.success THEN "output" ELSE "error", formatQueryResult(r)),
                    addLine("output", "")>>
    /\ terminal' = [terminal EXCEPT !.waiting = FALSE, !.isExecutingSQL = FALSE]
    /\ UNCHANGED executorVars

\* part_000:610-617, 518-524: the request is not answered
ExecuteFails ==
    /\ terminal.waiting
    /\ terminal.command \in {"sql", "show tables"}
    /\ display' = removeLoaders(display)
           \o <<addLine("error", IF terminal.command = "sql"
                                 THEN "ERROR: Failed to execute query"
                                 ELSE "ERROR: Failed to get tables"),
                addLine("output", "")>>
    /\ terminal' = [terminal EXCEPT !.waiting = FALSE, !.isExecutingSQL = FALSE]
    /\ UNCHANGED executorVars

NextUI ==
    \/ TypeSql
    \/ CancelInput
    \/ InsertBreak
    \/ PressArrowUp
    \/ PressArrowDown
    \/ SubmitOrContinue
    \/ ExecuteAnswers
    \/ ExecuteFails

SpecUI == InitUI /\ [][NextUI]_vars

\* the input last submitted is raw SQL: not empty, no special command, no
\* /ai command
RawSubmitted ==
    /\ terminal.isAuthenticated
    /\ trim(terminal.submitted) # ""
    /\ toLowerCase(trim(terminal.submitted)) \notin specialCommands
    /\ ~startsWith(toLowerCase(trim(terminal.submitted)), "/ai ")

\* C22: for a raw SQL submission the terminal sends one request to the
\* execute endpoint and no request to a generation endpoint, while the
\* request is pending and after it was answered, refused or lost
C22_RawSqlAskedOnce ==
    RawSubmitted => terminal.requests = <<"/api/sql/execute">>

C22_Witness ==
    /\ RawSubmitted
    /\ terminal.submitted = "SELECT * FROM t\n;"
    /\ ~terminal.waiting
    /\ terminal.requests = <<"/api/sql/execute">>
    /\ display # <<>>
    /\ display[Len(display) - 1] = addLine("error", "ERROR: Table or relation does not exist")

\* the input has a line numbered k
HasLineNumbered(k) == includes(terminal.currentInput, "\n" \o NumStr(k) \o ") ")

\* C28: the lines Enter adds to an unfinished command are numbered 2, 3, ...:
\* whatever was submitted or cancelled before, an input with a numbered line
\* has its first continuation line numbered 2
C28_FirstContinuationIsTwo ==
    \A k \in 3..(MaxEvents + 1) : HasLineNumbered(k) => HasLineNumbered(2)

\* C29: Enter on an /ai command written as the README and the help text show
\* it, without a semicolon, sends the generation request for its prompt
C29_AiCommandSubmitted ==
    terminal.entered = "/ai show t" =>
        /\ terminal.command = "ai"
        /\ terminal.requests = <<"/api/ai/agent">>

(***************************************************************************)
(* POST /api/ai/generate-sql (src/unnamed/part_006) and                    *)
(* generateSQLFromPrompt (src/lib/ai-sql-generator.ts:115-222).  terminal  *)
(* is the body of the request, info what getUserSchemaInfo returns for the *)
(* user, display the system prompt and the messages handed to the model.   *)
(***************************************************************************)
promptHead ==
    "You are Mastra AI, an expert PostgreSQL SQL query generator. Your only job is to convert natural language questions into valid PostgreSQL queries.  \n"
    \o "\n"
    \o "Database Schema Information:  \n"

promptTail ==
    "  \n"
    \o "\n"
    \o "Instructions:  \n"
    \o "1. Output only the SQL query. Do not include explanations, markdown formatting, or any extra text.  \n"
    \o "2. Use PostgreSQL syntax.  \n"
    \o "3. Follow the schema exactly. If a requested table or column is missing, return only a SQL comment like -- Query cannot be formed due to missing schema elements.  \n"
    \o "4. Use double quotes for case-sensitive or special character names.  \n"
    \o "5. Select only the columns requested or required. Do not use SELECT * unless explicitly asked.  \n"
    \o "6. Include necessary clauses like WHERE, JOIN, GROUP BY, ORDER BY, LIMIT as needed.  \n"
    \o "7. If the request is too ambiguous, return -- Request is too ambiguous to generate a query.  \n"
    \o "8. Default to SELECT unless the user explicitly asks for insert, update, delete, or create.  \n"
    \o "9. Only output the correct SQL code, nothing before or after."

\* ai-sql-generator.ts:157-171
baseSystemPrompt(schemaDescription) == promptHead \o schemaDescription \o promptTail

\* s.replace(/<lit>/g, ''), low being the text the literal is looked up in
RECURSIVE removeLiteral(_, _, _, _)
removeLiteral(s, low, lit, p) ==
    IF p > Len(s) THEN ""
    ELSE IF HasAt(low, p, lit) THEN removeLiteral(s, low, lit, p + Len(lit))
    ELSE Ch(s, p) \o removeLiteral(s, low, lit, p + 1)

sqlKeywords == {"select", "insert", "update", "delete", "create", "drop", "alter"}

\* ai-sql-generator.ts:176-217: the result made of the text of the model
generatedResult(generatedText, prompt) ==
    IF \A word \in sqlKeywords : ~includes(toLowerCase(generatedText), word)
    THEN [success |-> FALSE, sqlQuery |-> "",
          error |-> "AI did not generate a valid SQL query. The response might be an explanation or error message."]
    ELSE [success |-> TRUE, error |-> "",
          sqlQuery |->
              IF endsWith(trim(removeLiteral(removeLiteral(generatedText,
                                                           toLowerCase(generatedText),
                                                           Fence \o "sql", 1),
                                             removeLiteral(generatedText,
                                                           toLowerCase(generatedText),
                                                           Fence \o "sql", 1),
                                             Fence, 1)), ";")
              THEN trim(removeLiteral(removeLiteral(generatedText, toLowerCase(generatedText),
                                                    Fence \o "sql", 1),
                                      removeLiteral(generatedText, toLowerCase(generatedText),
                                                    Fence \o "sql", 1),
                                      Fence, 1))
              ELSE trim(removeLiteral(removeLiteral(generatedText, toLowerCase(generatedText),
                                                    Fence \o "sql", 1),
                                      removeLiteral(generatedText, toLowerCase(generatedText),
                                                    Fence \o "sql", 1),
                                      Fence, 1)) \o ";"]

GeneratedTexts == {"SELECT * FROM t", "^^^sql\nSELECT * FROM t;\n^^^", "I cannot answer that."}

RequestBodies ==
    [username : {"", "alice"},
     prompt : {"", "show t"},
     history : {<<>>, <<[role |-> "user", content |-> "show u"]>>},
     previousError : {"", "Table or relation does not exist"},
     previousQuery : {"", "SELECT * FROM u;"}]

InitPrompt ==
    /\ pc = "request"
    /\ call = NoCall
    /\ session = DefaultSession
    /\ db = [sch \in SchemaNames |-> IF sch = "public" THEN PublicSchema ELSE NoSchema]
    /\ tdb = db
    /\ dbBefore = db
    /\ dbLog = <<>>
    /\ result = NoResult
    /\ info \in {NoInfo,
                 [tables |-> <<[tableName |-> "t",
                                columns |-> <<[columnName |-> "id", dataType |-> "integer",
                                               isNullable |-> FALSE, isPrimaryKey |-> TRUE]>>,
                                sampleData |-> <<[id |-> 1]>>]>>,
                  totalTables |-> 1]}
    /\ display = <<>>
    /\ terminal \in RequestBodies

\* part_006:4-34 and generateSQLFromPrompt, which takes the user name, the
\* prompt and the history: the route hands it previousError and
\* previousQuery as a fourth and a fifth argument, for which it has no
\* parameter
GenerateSql ==
    /\ pc = "request"
    /\ pc' = "generated"
    /\ \E keyConfigured \in BOOLEAN, generatedText \in GeneratedTexts :
           IF terminal.username = "" \/ terminal.prompt = ""
           THEN /\ result' = [success |-> FALSE, sqlQuery |-> "",
                              error |-> "Username and prompt are required"]
                /\ display' = display
           ELSE IF ~keyConfigured
           THEN /\ result' = [success |-> FALSE, sqlQuery |-> "",
                              error |-> "Groq API key not configured. Please set GROQ_API_KEY in your environment variables."]
                /\ display' = display
           ELSE /\ result' = generatedResult(generatedText, terminal.prompt)
                /\ display' = <<[system |-> baseSystemPrompt(formatSchemaForAI(info)),
                                 messages |-> terminal.history
                                     \o <<[role |-> "user", content |-> terminal.prompt]>>]>>
    /\ UNCHANGED <<call, session, db, tdb, dbBefore, dbLog, info, terminal>>

NextPrompt == GenerateSql

SpecPrompt == InitPrompt /\ [][NextPrompt]_vars

\* C24: when the generator is asked with previousError and previousQuery, the
\* system prompt it sends to the model holds both texts as they were given
C24_PromptHoldsErrorAndQuery ==
    (pc = "generated" /\ display # <<>>
         /\ terminal.previousError # "" /\ terminal.previousQuery # "") =>
        /\ includes(display[1].system, terminal.previousError)
        /\ includes(display[1].system, terminal.previousQuery)

(***************************************************************************)
(* generateSQLWithAgent: the two-stage agent of src/lib/ai-agent.ts:150-369 *)
(* with identifyRelevantTables (91-147), and the agent of                  *)
(* src/unnamed/part_002:298-421.  terminal holds the call: its version,    *)
(* its arguments, the tables getTablesForUser returns, the relevant tables *)
(* and the model calls made so far; result is what the call returns.       *)
(***************************************************************************)
relevantLimit == 3

AgentPrompts ==
    {"create a users table with id and name", "show all tables", "show users",
     "describe users", "add a row to orders", "users schema"}

TableLists ==
    {<<>>, <<"users">>, <<"orders", "users">>, <<"items", "orders", "users", "visits">>}

\* what the model answers to the table-relevance call
RelevanceAnswerSet == {<<>>, <<"users">>, <<"users", "ghost">>, <<"orders", "users">>}

\* what the model answers to the command-generation call
CommandArrays ==
    {<<>>, <<"  ">>, <<" SELECT * FROM users ">>,
     <<"CREATE TABLE users (id INT, name TEXT);", "">>}

\* seq.slice(0, n)
sliceAll(seq, n) == seq
slice(seq, n) == IF Len(seq) > n THEN SubSeq(seq, 1, n) ELSE seq

isIn(list, item) == \E n \in 1..Len(list) : list[n] = item

\* ai-agent.ts:130
validTables(relevantTables, allTables) ==
    SelectSeq(relevantTables, LAMBDA table : isIn(allTables, table))

\* ai-agent.ts:137-145
keywordTables(allTables, prompt) ==
    slice(SelectSeq(allTables,
                    LAMBDA table : \/ includes(toLowerCase(prompt), toLowerCase(table))
                                   \/ includes(toLowerCase(prompt), "all")
                                   \/ includes(toLowerCase(prompt), "show")),
          relevantLimit)

\* ai-agent.ts:169-174: the stage that follows getTablesForUser
afterTablesStops(tables) == IF Len(tables) > 0 THEN "relevance" ELSE "done"
afterTables(tables) == IF Len(tables) > 0 THEN "relevance" ELSE "commands"

agentFailure(error) == [success |-> FALSE, sqlCommands |-> <<>>, error |-> error]
agentSuccess(sqlCommands) == [success |-> TRUE, sqlCommands |-> sqlCommands, error |-> ""]

\* ai-agent.ts:252-263
isShowTables(relevantTableNames, tables, prompt) ==
    /\ Len(relevantTableNames) = 0
    /\ Len(tables) > 0
    /\ includes(toLowerCase(prompt), "show")
    /\ includes(toLowerCase(prompt), "table") \/ includes(toLowerCase(prompt), "all")

tableListing(username) ==
    <<"SELECT tablename FROM pg_tables WHERE schemaname = '" \o sanitizeSchemaName(username)
         \o "' ORDER BY tablename;">>

\* ai-agent.ts:310-313
cleanCommands(commands) ==
    [n \in 1..Len(SelectSeq(commands, LAMBDA cmd : Len(trim(cmd)) > 0)) |->
        IF endsWith(trim(SelectSeq(commands, LAMBDA cmd : Len(trim(cmd)) > 0)[n]), ";")
        THEN trim(SelectSeq(commands, LAMBDA cmd : Len(trim(cmd)) > 0)[n])
        ELSE trim(SelectSeq(commands, LAMBDA cmd : Len(trim(cmd)) > 0)[n]) \o ";"]

\* ai-agent.ts:322-351: the catch of the second model call
commandFallback(relevantTableNames, prompt) ==
    IF Len(relevantTableNames) = 0
    THEN agentFailure("AI failed to generate SQL commands")
    ELSE IF includes(toLowerCase(prompt), "show") \/ includes(toLowerCase(prompt), "select")
    THEN agentSuccess([n \in 1..Len(relevantTableNames) |->
                          "SELECT * FROM \"" \o relevantTableNames[n] \o "\";"])
    ELSE IF includes(toLowerCase(prompt), "schema") \/ includes(toLowerCase(prompt), "describe")
    THEN agentSuccess([n \in 1..Len(relevantTableNames) |->
                          "SELECT column_name, data_type FROM information_schema.columns WHERE table_name = '"
                              \o relevantTableNames[n] \o "' ORDER BY ordinal_position;"])
    ELSE agentFailure("AI failed to generate SQL commands")

InitAgent ==
    /\ pc = "agent"
    /\ call = NoCall
    /\ session = DefaultSession
    /\ db = [sch \in SchemaNames |-> IF sch = "public" THEN PublicSchema ELSE NoSchema]
    /\ tdb = db
    /\ dbBefore = db
    /\ dbLog = <<>>
    /\ result = agentFailure("")
    /\ info = NoInfo
    /\ display = <<>>
    /\ terminal \in [at : {"start"}, version : {"lib", "part_002"}, username : {"alice"},
                     prompt : AgentPrompts, tables : TableLists, keyConfigured : BOOLEAN,
                     relevantTableNames : {<<>>}, path : {"none"}, modelCalls : {<<>>}]

agentUnchanged == <<pc, call, session, db, tdb, dbBefore, dbLog, info, display>>

\* ai-agent.ts:150-174
AgentStarts ==
    /\ terminal.at = "start" /\ terminal.version = "lib"
    /\ IF ~terminal.keyConfigured
       THEN /\ terminal' = [terminal EXCEPT !.at = "done"]
            /\ result' = agentFailure("AI agent failed to process request")
       ELSE /\ terminal' = [terminal EXCEPT !.at = afterTables(terminal.tables)]
            /\ result' = result
    /\ UNCHANGED agentUnchanged

\* the end of the first stage (ai-agent.ts:176-263): the listing of the
\* tables is returned at once, anything else goes to the second model call
afterRelevance(t, relevantTableNames, path) ==
    [t EXCEPT !.relevantTableNames = relevantTableNames,
              !.path = path,
              !.modelCalls = @ \o <<"relevance">>,
              !.at = IF isShowTables(relevantTableNames, t.tables, t.prompt)
                     THEN "done" ELSE "commands"]

\* identifyRelevantTables, the model answers (ai-agent.ts:98-133)
RelevanceAnswers ==
    /\ terminal.at = "relevance"
    /\ \E relevantTables \in RelevanceAnswerSet :
          terminal' = afterRelevance(terminal,
                                     validTables(relevantTables, terminal.tables), "model")
    /\ result' = IF terminal'.at = "done" THEN agentSuccess(tableListing(terminal.username))
                 ELSE result
    /\ UNCHANGED agentUnchanged

\* identifyRelevantTables, the model call throws (ai-agent.ts:134-146)
RelevanceFails ==
    /\ terminal.at = "relevance"
    /\ terminal' = afterRelevance(terminal,
                                  keywordTables(terminal.tables, terminal.prompt), "fallback")
    /\ result' = IF terminal'.at = "done" THEN agentSuccess(tableListing(terminal.username))
                 ELSE result
    /\ UNCHANGED agentUnchanged

\* the second model call answers (ai-agent.ts:265-320, 353-359)
CommandsAnswer ==
    /\ terminal.at = "commands" /\ terminal.version = "lib"
    /\ terminal' = [terminal EXCEPT !.at = "done", !.modelCalls = @ \o <<"commands">>]
    /\ \E commands \in CommandArrays :
          result' = IF Len(cleanCommands(commands)) = 0
                    THEN commandFallback(terminal.relevantTableNames, terminal.prompt)
                    ELSE agentSuccess(cleanCommands(commands))
    /\ UNCHANGED agentUnchanged

\* the second model call throws (ai-agent.ts:322-351)
CommandsFail ==
    /\ terminal.at = "commands" /\ terminal.version = "lib"
    /\ terminal' = [terminal EXCEPT !.at = "done", !.modelCalls = @ \o <<"commands">>]
    /\ result' = commandFallback(terminal.relevantTableNames, terminal.prompt)
    /\ UNCHANGED agentUnchanged

\* part_002:324-344
filteredRelevantTables(tables, prompt) ==
    IF Len(SelectSeq(tables,
                     LAMBDA table : \/ includes(toLowerCase(prompt), toLowerCase(table))
                                    \/ includes(toLowerCase(prompt), "all")
                                    \/ includes(toLowerCase(prompt), "show")
                                    \/ includes(toLowerCase(prompt), "table"))) = 0
    THEN slice(tables, relevantLimit)
    ELSE slice(SelectSeq(tables,
                         LAMBDA table : \/ includes(toLowerCase(prompt), toLowerCase(table))
                                        \/ includes(toLowerCase(prompt), "all")
                                        \/ includes(toLowerCase(prompt), "show")
                                        \/ includes(toLowerCase(prompt), "table")),
               relevantLimit)

\* part_002:298-354
EarlierAgentStarts ==
    /\ terminal.at = "start" /\ terminal.version = "part_002"
    /\ IF ~terminal.keyConfigured
       THEN /\ terminal' = [terminal EXCEPT !.at = "done"]
            /\ result' = agentFailure("AI agent failed to process request")
       ELSE IF Len(terminal.tables) = 0
       THEN /\ terminal' = [terminal EXCEPT !.at = "done"]
            /\ result' = agentFailure("No tables found in your schema. Please create some tables first.")
       ELSE /\ terminal' = [terminal EXCEPT
                               !.at = "commands",
                               !.path = "fallback",
                               !.relevantTableNames =
                                   filteredRelevantTables(terminal.tables, terminal.prompt)]
            /\ result' = result
    /\ UNCHANGED agentUnchanged

\* part_002:356-400, 413-419: the commands of the model are returned as they are
EarlierCommandsAnswer ==
    /\ terminal.at = "commands" /\ terminal.version = "part_002"
    /\ terminal' = [terminal EXCEPT !.at = "done", !.modelCalls = @ \o <<"commands">>]
    /\ \E commands \in CommandArrays : result' = agentSuccess(commands)
    /\ UNCHANGED agentUnchanged

\* part_002:401-419
EarlierCommandsFail ==
    /\ terminal.at = "commands" /\ terminal.version = "part_002"
    /\ terminal' = [terminal EXCEPT !.at = "done", !.modelCalls = @ \o <<"commands">>]
    /\ result' = agentSuccess(
           IF includes(toLowerCase(terminal.prompt), "schema")
           THEN <<"SELECT column_name, data_type \n           FROM information_schema.columns \n           WHERE table_name = '"
                     \o terminal.relevantTableNames[1] \o "'">>
           ELSE <<>>)
    /\ UNCHANGED agentUnchanged

NextAgent ==
    \/ AgentStarts
    \/ RelevanceAnswers
    \/ RelevanceFails
    \/ CommandsAnswer
    \/ CommandsFail
    \/ EarlierAgentStarts
    \/ EarlierCommandsAnswer
    \/ EarlierCommandsFail

SpecAgent == InitAgent /\ [][NextAgent]_vars

\* C25: with no table in the tenant's schema the agent of ai-agent.ts makes
\* no table-relevance call and goes on to the command generation with an
\* empty list of relevant tables; it ends only after the command-generation
\* call, and a failure it reports is that of the command generation
C25_NoTablesGoesToCommands ==
    (terminal.version = "lib" /\ terminal.keyConfigured /\ terminal.tables = <<>>
         /\ terminal.at # "start") =>
        /\ terminal.at \in {"commands", "done"}
        /\ ~isIn(terminal.modelCalls, "relevance")
        /\ terminal.relevantTableNames = <<>>
        /\ terminal.at = "done" =>
              /\ terminal.modelCalls = <<"commands">>
              /\ ~result.success => result.error = "AI failed to generate SQL commands"

C25_Witness ==
    /\ terminal.version = "lib" /\ terminal.tables = <<>> /\ terminal.at = "done"
    /\ terminal.prompt = "create a users table with id and name"
    /\ result = agentSuccess(<<"CREATE TABLE users (id INT, name TEXT);">>)

\* C26: a result of generateSQLWithAgent with success true carries at least
\* one command, and each of its commands is non-blank, trimmed and ends with
\* a semicolon
C26_SuccessCarriesCleanCommands ==
    (terminal.at = "done" /\ result.success) =>
        /\ Len(result.sqlCommands) > 0
        /\ \A n \in 1..Len(result.sqlCommands) :
              /\ Len(trim(result.sqlCommands[n])) > 0
              /\ trim(result.sqlCommands[n]) = result.sqlCommands[n]
              /\ endsWith(result.sqlCommands[n], ";")

\* C30: the tables identifyRelevantTables returns are existing tables of the
\* tenant, on the model path and on the keyword fallback; the fallback returns
\* at most 3 of them, each named in the prompt unless the prompt contains
\* 'all' or 'show'
C30_RelevantTablesExist ==
    (terminal.version = "lib" /\ terminal.path # "none") =>
        /\ \A n \in 1..Len(terminal.relevantTableNames) :
              isIn(terminal.tables, terminal.relevantTableNames[n])
        /\ terminal.path = "fallback" =>
              /\ Len(terminal.relevantTableNames) <= 3
              /\ \A n \in 1..Len(terminal.relevantTableNames) :
                    \/ includes(toLowerCase(terminal.prompt),
                                toLowerCase(terminal.relevantTableNames[n]))
                    \/ includes(toLowerCase(terminal.prompt), "all")
                    \/ includes(toLowerCase(terminal.prompt), "show")

C30_Witness ==
    /\ terminal.version = "lib" /\ terminal.path = "fallback"
    /\ Len(terminal.tables) > 3
    /\ Len(terminal.relevantTableNames) = 3

\* C31: when the database refuses a statement with a message that holds none
\* of the known substrings, the failure result carries that message as it is,
\* whatever the text of the statement holds
C31_UnknownErrorPassedThrough ==
    [][(StatementFails /\ friendlyError(CurrentOutcome.error) = CurrentOutcome.error) =>
           includes(result'.error, CurrentOutcome.error)]_vars

\* C32: for each table of the generation context, the 'Start from ID' value
\* is larger than every id stored in that table of the tenant when the
\* schema was read
C32_StartIdAboveStoredIds ==
    pc = "context" =>
        \A n \in 1..Len(info.tables) :
            \E k \in 1..(MaxId + 1) :
                /\ includes(display[1] \o "\n",
                            info.tables[n].tableName \o ": Start from ID " \o NumStr(k) \o "\n")
                /\ \A id \in db[call.schemaName].rows : k > id

\* the commands of the result were made without the model: the listing of
\* the tables, or the fallback of the catch of the second model call
MadeWithoutModel ==
    /\ terminal.version = "lib" /\ terminal.at = "done" /\ result.success
    /\ \/ result.sqlCommands = tableListing(terminal.username)
       \/ result = commandFallback(terminal.relevantTableNames, terminal.prompt)

\* C33: every command the agent makes without the model passes the access
\* checks of executeUserQuery when executed for the same user
C33_OwnCommandsPassChecks ==
    MadeWithoutModel =>
        \A n \in 1..Len(result.sqlCommands) :
            PreCheck(terminal.username, result.sqlCommands[n]).ok

(***************************************************************************)
(* Two calls of executeUserQuery, one per tenant, whose requests to the    *)
(* database interleave: src/lib/sql-executor.ts:152-231, where the         *)
(* statements go through the one session of sql.transaction, and           *)
(* src/unnamed/part_004:134-221, where SET search_path and every statement *)
(* are requests of their own.  pc, call, session and result hold one entry *)
(* per tenant, terminal the version that is deployed; dbLog holds the      *)
(* statements the database ran.  The submitted texts pass the checks of    *)
(* both versions alike.                                                    *)
(***************************************************************************)
TenantQueries ==
    { "INSERT INTO t VALUES (1)",
      "CREATE TABLE t (id INT PRIMARY KEY); INSERT INTO t VALUES (1)",
      "SELECT * FROM t; selec 1",
      "SET search_path TO bob; INSERT INTO t VALUES (1)" }

InitTenants ==
    /\ pc = [u \in Tenants |-> "idle"]
    /\ call = [u \in Tenants |-> NoCall]
    /\ session = [u \in Tenants |-> DefaultSession]
    /\ db \in InitialDatabases
    /\ tdb = db
    /\ dbBefore = db
    /\ dbLog = <<>>
    /\ result = [u \in Tenants |-> NoResult]
    /\ info = NoInfo
    /\ display = <<>>
    /\ terminal \in [version : {"lib", "part_004"}]

\* the tables with the effects of the statements of an open transaction
RECURSIVE withEffects(_, _, _)
withEffects(effects, n, d) ==
    IF n > Len(effects) THEN d
    ELSE withEffects(effects, n + 1, DbEffect(effects[n].st, d, effects[n].path))

\* the tables a statement of tenant u sees
tenantView(u) ==
    IF terminal.version = "lib" THEN withEffects(call[u].allResults, 1, db) ELSE db

\* the search path a statement of tenant u finds
tenantPath(u) == IF terminal.version = "lib" THEN session[u].path ELSE DefaultSession.path

tenantText(u) == queryToExecute(call[u].queries[call[u].i])

tenantOutcome(u) ==
    DbOutcome(DbParse(tenantText(u)), tenantText(u), tenantView(u), tenantPath(u))

\* the statement of tenant u as the database ran it; own tells the
\* statements of the user's text from the prepended SET search_path
tenantLogged(u, ok) ==
    [kind |-> "stmt", tenant |-> u, text |-> tenantText(u), path |-> tenantPath(u),
     no |-> call[u].i, ok |-> ok,
     own |-> terminal.version = "part_004" \/ call[u].i > 1,
     target |-> IF DbParse(tenantText(u)).op \in {"insert", "create"}
                   /\ ~IsCatalog(DbParse(tenantText(u)))
                THEN TargetSchema(DbParse(tenantText(u)), tenantPath(u)) ELSE ""]

tenantUnchanged == <<dbBefore, info, display, terminal>>

\* the checks (sql-executor.ts:99-150, part_004:87-132)
TenantCalls(u, q) ==
    /\ pc[u] = "idle"
    /\ call' = [call EXCEPT ![u] = [NoCall EXCEPT !.username = u, !.query = q,
                                                  !.schemaName = sanitizeSchemaName(u)]]
    /\ pc' = [pc EXCEPT ![u] = IF PreCheck(u, q).ok THEN "setup" ELSE "done"]
    /\ result' = IF PreCheck(u, q).ok THEN result
                 ELSE [result EXCEPT ![u] = failureResult(PreCheck(u, q).error)]
    /\ UNCHANGED <<session, db, tdb, dbLog>>
    /\ UNCHANGED tenantUnchanged

\* sql-executor.ts:153-196 and part_004:134-176: the schema is created, in
\* part_004 SET search_path is sent in a request of its own, and the list of
\* the statements is made
TenantSetsUp(u) ==
    /\ pc[u] = "setup"
    /\ db' = WithSchema(db, call[u].schemaName)
    /\ tdb' = db'
    /\ call' = [call EXCEPT
                   ![u].i = 1,
                   ![u].allResults = <<>>,
                   ![u].queries = IF terminal.version = "lib"
                                  THEN splitQueries(call[u].schemaName, trim(call[u].query))
                                  ELSE UserStatements(call[u].query, call[u].schemaName)]
    /\ session' = [session EXCEPT ![u] = [path |-> DefaultSession.path,
                                          inTx |-> terminal.version = "lib"]]
    /\ pc' = [pc EXCEPT ![u] = "tx"]
    /\ UNCHANGED <<dbLog, result>>
    /\ UNCHANGED tenantUnchanged

\* sql-executor.ts:199-222 and part_004:178-201: the next statement of
\* tenant u succeeds
TenantStatementSucceeds(u) ==
    /\ pc[u] = "tx"
    /\ call[u].i <= Len(call[u].queries)
    /\ tenantOutcome(u).ok
    /\ dbLog' = Append(dbLog, tenantLogged(u, TRUE))
    /\ call' = [call EXCEPT
                   ![u].i = @ + 1,
                   ![u].totalRowCount = @ + Len(tenantOutcome(u).rows),
                   ![u].allResults =
                       IF terminal.version = "lib"
                       THEN Append(@, [st |-> DbParse(tenantText(u)), path |-> tenantPath(u)])
                       ELSE @]
    /\ session' = IF terminal.version = "lib"
                  THEN [session EXCEPT ![u].path = PathAfter(DbParse(tenantText(u)), @)]
                  ELSE session
    /\ db' = IF terminal.version = "lib" THEN db
             ELSE DbEffect(DbParse(tenantText(u)), db, tenantPath(u))
    /\ tdb' = db'
    /\ UNCHANGED <<pc, result>>
    /\ UNCHANGED tenantUnchanged

\* sql-executor.ts:223-227, 242-267 and part_004:202-215, 230-255: the
\* database refuses the statement; the transaction is rolled back
TenantStatementFails(u) ==
    /\ pc[u] = "tx"
    /\ call[u].i <= Len(call[u].queries)
    /\ ~tenantOutcome(u).ok
    /\ dbLog' = Append(dbLog, tenantLogged(u, FALSE))
    /\ call' = [call EXCEPT ![u].allResults = <<>>]
    /\ session' = [session EXCEPT ![u].inTx = FALSE]
    /\ pc' = [pc EXCEPT ![u] = "done"]
    /\ result' = [result EXCEPT ![u] = failureResult(friendlyError(
                      innerError(call[u].i, call[u].queries[call[u].i],
                                 tenantOutcome(u).error)))]
    /\ UNCHANGED <<db, tdb>>
    /\ UNCHANGED tenantUnchanged

\* sql-executor.ts:230-240 and part_004:218-228: the loop is over; the
\* transaction commits
TenantReturns(u) ==
    /\ pc[u] = "tx"
    /\ call[u].i > Len(call[u].queries)
    /\ db' = tenantView(u)
    /\ tdb' = db'
    /\ session' = [session EXCEPT ![u].inTx = FALSE]
    /\ pc' = [pc EXCEPT ![u] = "done"]
    /\ result' = [result EXCEPT ![u] = [NoResult EXCEPT !.success = TRUE,
                                                         !.rowCount = call[u].totalRowCount]]
    /\ UNCHANGED <<call, dbLog>>
    /\ UNCHANGED tenantUnchanged

NextTenants ==
    \/ \E u \in Tenants, q \in TenantQueries : TenantCalls(u, q)
    \/ \E u \in Tenants : TenantSetsUp(u)
    \/ \E u \in Tenants : TenantStatementSucceeds(u)
    \/ \E u \in Tenants : TenantStatementFails(u)
    \/ \E u \in Tenants : TenantReturns(u)

SpecTenants == InitTenants /\ [][NextTenants]_vars

\* C34: whatever the interleaving of the calls of the two tenants, every
\* statement of a tenant's text runs with the search path of that tenant's
\* schema, and none changes a table of another schema
C34_StatementsKeepToOwnSchema ==
    \A n \in 1..Len(dbLog) :
        dbLog[n].own =>
            /\ dbLog[n].path = sanitizeSchemaName(dbLog[n].tenant)
            /\ (dbLog[n].ok /\ dbLog[n].target # "") =>
                   dbLog[n].target = sanitizeSchemaName(dbLog[n].tenant)

(***************************************************************************)
(* The terminal of src/unnamed/part_000 across a logout and a login: the   *)
(* session of SpecUI, begun with some commands already in the history, and *)
(* the keys pressed while logged out.  Every key counts in terminal.events.*)
(***************************************************************************)
\* the history after no command, and after a command of two lines and a
\* command of one
Histories ==
    {<<>>,
     <<historyItem("SELECT *\nFROM t;"), historyItem("help")>>}

InitHistory ==
    /\ pc = "idle"
    /\ call = NoCall
    /\ session = DefaultSession
    /\ db = [sch \in SchemaNames |-> IF sch = "public" THEN PublicSchema ELSE NoSchema]
    /\ tdb = db
    /\ dbBefore = db
    /\ dbLog = <<>>
    /\ result = NoResult
    /\ info = NoInfo
    /\ display = <<>>
    /\ \E history \in Histories :
       terminal = [isAuthenticated |-> TRUE, authStep |-> "password", username |-> "alice",
                   isRegistering |-> FALSE, tempUsername |-> "", isLoading |-> FALSE,
                   loaders |-> TRUE, pending |-> <<>>,
                   currentInput |-> "", currentLineNumber |-> 1,
                   commandHistory |-> history, historyIndex |-> -1,
                   showingFullCommand |-> FALSE, isPasswordInput |-> FALSE,
                   isExecutingSQL |-> FALSE, isHelpModalOpen |-> FALSE,
                   command |-> "", waiting |-> FALSE, query |-> "", requests |-> <<>>,
                   entered |-> "", submitted |-> "", events |-> 0]

LoggedOutKey ==
    /\ ~terminal.isAuthenticated
    /\ InputShown
    /\ terminal.events < MaxEvents

\* handleCommand (part_000:274-293): the input is taken and the browsing of
\* the history ends
handleCommandKeepsHistory(t) == [t EXCEPT !.currentInput = "", !.currentLineNumber = 1]
handleCommand(t) ==
    [t EXCEPT !.currentInput = "", !.historyIndex = -1, !.showingFullCommand = FALSE,
              !.currentLineNumber = 1]

\* handleKeyDown, Enter, while logged out (part_000:136-140), handleCommand
\* and handleAuthFlow (311-345)
LoggedOutEnter ==
    /\ LoggedOutKey
    /\ terminal' = [handleCommand(handleAuthFlow(terminal, trim(terminal.currentInput)))
                    EXCEPT !.events = @ + 1, !.entered = terminal.currentInput]
    /\ display' = withWelcome(
           display \o <<addLine("input", getPrompt(terminal) \o displayInput(terminal))>>
                   \o authFlowLines(terminal, trim(terminal.currentInput)),
           terminal, terminal')
    /\ UNCHANGED executorVars

\* handleKeyDown, Ctrl+C, while logged out (part_000:119-133)
LoggedOutCancel ==
    /\ LoggedOutKey
    /\ terminal' = [terminal EXCEPT !.currentInput = "", !.events = @ + 1]
    /\ display' = withWelcome(
           Append(display, addLine("input", getPrompt(terminal) \o displayInput(terminal)
                                            \o "^C")),
           terminal, terminal')
    /\ UNCHANGED executorVars

\* handleKeyDown, ArrowUp and ArrowDown, while logged out (part_000:190-268):
\* the whole command of the history item is shown
BrowseLoggedOut ==
    /\ LoggedOutKey
    /\ \E key \in {"ArrowUp", "ArrowDown"} :
           terminal' =
               [(IF key = "ArrowUp"
                 THEN IF terminal.commandHistory # <<>>
                         /\ terminal.historyIndex < Len(terminal.commandHistory) - 1
                      THEN [terminal EXCEPT
                               !.historyIndex = @ + 1,
                               !.currentInput =
                                   historyAt(terminal, terminal.historyIndex + 1).fullCommand]
                      ELSE terminal
                 ELSE IF terminal.historyIndex > 0
                 THEN [terminal EXCEPT
                          !.historyIndex = @ - 1,
                          !.currentInput =
                              historyAt(terminal, terminal.historyIndex - 1).fullCommand]
                 ELSE IF terminal.historyIndex = 0
                 THEN [terminal EXCEPT !.historyIndex = -1, !.currentInput = "",
                                       !.showingFullCommand = FALSE]
                 ELSE terminal)
                EXCEPT !.events = @ + 1]
    /\ UNCHANGED <<executorVars, display>>

\* handleLogin and handleRegister, the answer arrives (part_000:357-380,
\* 404-425): the session takes the user name of the answer
LoginAnswers ==
    /\ terminal.pending # <<>>
    /\ \E success \in BOOLEAN, message \in AuthMessages :
          /\ terminal' =
                 [(IF success
                   THEN [terminal EXCEPT !.isAuthenticated = TRUE, !.isRegistering = FALSE,
                                         !.username = terminal.pending[1].username]
                   ELSE [resetAuth(terminal) EXCEPT !.username = ""])
                  EXCEPT !.isLoading = FALSE, !.pending = <<>>]
          /\ display' = withWelcome(
                 removeLoaders(display)
                     \o (IF success THEN connectedLines(terminal.pending[1])
                         ELSE refusedLines(terminal.pending[1], message)),
                 terminal, terminal')
    /\ UNCHANGED executorVars

\* the request is not answered (part_000:381-388, 426-433)
LoginFails ==
    /\ terminal.pending # <<>>
    /\ terminal' = [resetAuth(terminal) EXCEPT !.username = "", !.isLoading = FALSE,
                                                !.pending = <<>>]
    /\ display' = withWelcome(
           removeLoaders(display)
               \o <<addLine("error", IF terminal.pending[1].register
                                     THEN "Account creation failed"
                                     ELSE "Connection failed")>>,
           terminal, terminal')
    /\ UNCHANGED executorVars

NextHistory ==
    \/ TypeWord
    \/ LoggedOutEnter
    \/ LoggedOutCancel
    \/ BrowseLoggedOut
    \/ LoginAnswers
    \/ LoginFails
    \/ TypeSql
    \/ CancelInput
    \/ InsertBreak
    \/ PressArrowUp
    \/ PressArrowDown
    \/ SubmitOrContinue
    \/ ExecuteAnswers
    \/ ExecuteFails

SpecHistory == InitHistory /\ [][NextHistory]_vars

\* the index of commandHistory the next ArrowUp or ArrowDown reads, if any,
\* is inside the array
LookupsInRange ==
    /\ (terminal.commandHistory # <<>>
            /\ terminal.historyIndex < Len(terminal.commandHistory) - 1) =>
           terminal.historyIndex + 1 \in 0..(Len(terminal.commandHistory) - 1)
    /\ (terminal.isAuthenticated /\ (terminal.showingFullCommand \/ terminal.historyIndex >= 0)) =>
           terminal.historyIndex \in 0..(Len(terminal.commandHistory) - 1)
    /\ terminal.historyIndex > 0 =>
           terminal.historyIndex - 1 \in 0..(Len(terminal.commandHistory) - 1)

\* Enter hands the input to handleCommand
Submits ==
    \/ LoggedOutEnter
    \/ /\ SubmitOrContinue
       /\ \/ endsWith(trim(terminal.currentInput), ";")
          \/ toLowerCase(trim(terminal.currentInput)) \in specialCommands

\* C35: historyIndex stays between -1 and commandHistory.length - 1, every
\* lookup of the history uses an index inside the array, and historyIndex is
\* -1 right after every submission
C35_HistoryIndexInRange ==
    /\ [](/\ terminal.historyIndex \in (-1)..(Len(terminal.commandHistory) - 1)
          /\ LookupsInRange)
    /\ [][Submits => terminal'.historyIndex = -1]_vars

C35_Witness ==
    /\ ~terminal.isAuthenticated
    /\ Len(terminal.commandHistory) > 1
    /\ terminal.historyIndex = 1

(***************************************************************************)
(* The table formatQueryResult (src/lib/sql-executor.ts:279-299) renders,  *)
(* line by line.                                                           *)
(***************************************************************************)
RECURSIVE textLines(_)
textLines(s) ==
    IF LineBreak(s, 1) = 0 THEN <<s>>
    ELSE <<SubSeq(s, 1, LineBreak(s, 1) - 1)>>
             \o textLines(SubSeq(s, LineBreak(s, 1) + 1, Len(s)))

rendered == textLines(display[1])

\* C39: for a successful result with rows, formatQueryResult renders a
\* header, a separator, then one line per row that shows the string form of
\* the row's value, 0 included, an empty line, and '(n rows)', or '(1 row)'
\* for one row.
C39_RowsShowEveryValue ==
    (pc = "formatted" /\ result.success /\ HasRows(result)) =>
        /\ Len(rendered) = Len(result.data) + 4
        /\ \A n \in 1..Len(result.data) :
               trim(rendered[n + 2]) = NumStr(result.data[n].id)
        /\ rendered[Len(rendered)] =
               "(" \o NumStr(Len(result.data))
                   \o (IF Len(result.data) = 1 THEN " row)" ELSE " rows)")

(***************************************************************************)
(* Login: loginUser and registerUser (src/lib/auth.ts) behind POST         *)
(* /api/auth/login (src/app/api/auth/login/route.ts).  info.users is the   *)
(* table User, call the body of the last request, result its response.    *)
(* A value of a request body is a JSON value: a string, a number or        *)
(* absent.                                                                 *)
(***************************************************************************)
LoginNames == {"alice", "bob"}

JsonString(s) == [type |-> "string", text |-> s]

LoginPasswords ==
    {JsonString("pw1"), JsonString("pw2"), JsonString(""),
     [type |-> "number", text |-> "123"], [type |-> "undefined", text |-> ""]}

\* !value of JavaScript
falsy(value) == value.type = "undefined" \/ value.text = ""

\* bcrypt.hash(password, 10)
bcryptHash(password) == "$2a$10$" \o password

\* bcrypt.compare(password, hash): an argument that is no string is refused
bcryptCompare(password, hash) ==
    IF password.type # "string" THEN "throws"
    ELSE IF hash = bcryptHash(password.text) THEN "true" ELSE "false"

usersNamed(users, username) == {user \in users : user.username = username}

\* auth.ts:48-84
loginUser(users, username, password, dbFails) ==
    IF dbFails THEN [success |-> FALSE, message |-> "Login failed"]
    ELSE IF usersNamed(users, username) = {}
    THEN [success |-> FALSE, message |-> "Invalid username or password"]
    ELSE IF \E user \in usersNamed(users, username) :
                bcryptCompare(password, user.password) = "throws"
    THEN [success |-> FALSE, message |-> "Login failed"]
    ELSE IF \E user \in usersNamed(users, username) :
                bcryptCompare(password, user.password) = "false"
    THEN [success |-> FALSE, message |-> "Invalid username or password"]
    ELSE [success |-> TRUE, message |-> "Login successful", username |-> username]

\* route.ts:4-29
loginRoute(users, body, dbFails) ==
    IF body.username = "" \/ falsy(body.password)
    THEN [status |-> 400,
          body |-> [success |-> FALSE, message |-> "Username and password are required"]]
    ELSE [status |-> IF loginUser(users, body.username, body.password, dbFails).success
                     THEN 200 ELSE 401,
          body |-> loginUser(users, body.username, body.password, dbFails)]

InitLogin ==
    /\ pc = "idle"
    /\ call = [username |-> "", password |-> JsonString(""), dbFails |-> FALSE]
    /\ session = DefaultSession
    /\ db = [sch \in SchemaNames |-> IF sch = "public" THEN PublicSchema ELSE NoSchema]
    /\ tdb = db
    /\ dbBefore = db
    /\ dbLog = <<>>
    /\ result = NoResult
    /\ info = [users |-> {}]
    /\ display = <<>>
    /\ terminal = NoTerminal

\* auth.ts:12-46
RegisterUser ==
    /\ \E username \in LoginNames, password \in {"pw1", "pw2"}, dbFails \in BOOLEAN :
          /\ call' = [username |-> username, password |-> JsonString(password),
                      dbFails |-> dbFails]
          /\ IF dbFails
             THEN /\ result' = [success |-> FALSE, message |-> "Failed to create account"]
                  /\ info' = info
             ELSE IF usersNamed(info.users, username) # {}
             THEN /\ result' = [success |-> FALSE, message |-> "Username already exists"]
                  /\ info' = info
             ELSE /\ result' = [success |-> TRUE, message |-> "Account created successfully",
                                username |-> username]
                  /\ info' = [info EXCEPT !.users =
                                  @ \cup {[username |-> username,
                                           password |-> bcryptHash(password)]}]
    /\ pc' = "registered"
    /\ UNCHANGED <<session, db, tdb, dbBefore, dbLog, display, terminal>>

\* POST /api/auth/login
PostLogin ==
    /\ \E username \in LoginNames \cup {"carol", ""}, password \in LoginPasswords,
          dbFails \in BOOLEAN :
          /\ call' = [username |-> username, password |-> password, dbFails |-> dbFails]
          /\ result' = loginRoute(info.users, call', dbFails)
    /\ pc' = "answered"
    /\ UNCHANGED <<session, db, tdb, dbBefore, dbLog, info, display, terminal>>

NextLogin == RegisterUser \/ PostLogin

SpecLogin == InitLogin /\ [][NextLogin]_vars

\* the request names a user of the table and carries that user's password
rightPassword ==
    \E user \in usersNamed(info.users, call.username) :
        bcryptCompare(call.password, user.password) = "true"

\* C36: a login request with a user name and a password that is answered
\* by the database gets, for an unknown user name as for a known user name
\* with a wrong password, status 401, success false and the message
\* 'Invalid username or password'.
C36_UnknownLikeWrongPassword ==
    (/\ pc = "answered"
     /\ ~call.dbFails
     /\ call.username # ""
     /\ ~falsy(call.password)
     /\ ~rightPassword) =>
        result = [status |-> 401,
                  body |-> [success |-> FALSE, message |-> "Invalid username or password"]]

(***************************************************************************)
(* The lines of one command of the terminal (src/unnamed/part_000), beside *)
(* the text the user typed: terminal.typed is what the user typed since    *)
(* the last submission, a line break for every Enter and Shift+Enter;      *)
(* terminal.continued tells that Enter began a numbered line.  The display *)
(* is left out: the textarea takes keys until a request is sent.           *)
(***************************************************************************)
LineWords == {"SELECT (1 +", "0 +", "2) AS x;", ";"}

InitLines ==
    /\ pc = "idle"
    /\ call = NoCall
    /\ session = DefaultSession
    /\ db = [sch \in SchemaNames |-> IF sch = "public" THEN PublicSchema ELSE NoSchema]
    /\ tdb = db
    /\ dbBefore = db
    /\ dbLog = <<>>
    /\ result = NoResult
    /\ info = NoInfo
    /\ display = <<>>
    /\ terminal = [isAuthenticated |-> TRUE, authStep |-> "password", username |-> "alice",
                   currentInput |-> "", currentLineNumber |-> 1,
                   commandHistory |-> <<>>, historyIndex |-> -1,
                   showingFullCommand |-> FALSE, isPasswordInput |-> FALSE,
                   isExecutingSQL |-> FALSE, isHelpModalOpen |-> FALSE,
                   command |-> "", waiting |-> FALSE, query |-> "", requests |-> <<>>,
                   entered |-> "", submitted |-> "", events |-> 0,
                   typed |-> "", continued |-> FALSE, sent |-> "", sentContinued |-> FALSE]

LineKeyTaken ==
    /\ terminal.isAuthenticated
    /\ ~terminal.waiting
    /\ terminal.events < MaxEvents

\* onChange of the textarea (part_000:843)
TypeLine ==
    /\ LineKeyTaken
    /\ \E word \in LineWords :
           terminal' = [terminal EXCEPT !.currentInput = @ \o word, !.typed = @ \o word,
                                        !.events = @ + 1]
    /\ UNCHANGED <<executorVars, display>>

\* handleKeyDown, Shift+Enter (part_000:165-168)
ShiftEnter ==
    /\ LineKeyTaken
    /\ terminal' = [terminal EXCEPT !.currentInput = @ \o "\n", !.typed = @ \o "\n",
                                    !.events = @ + 1]
    /\ UNCHANGED <<executorVars, display>>

\* the input is a complete command (part_000:171-172)
isComplete(t) ==
    \/ endsWith(trim(t.currentInput), ";")
    \/ toLowerCase(trim(t.currentInput)) \in specialCommands

\* handleKeyDown, Enter (part_000:169-186), with handleCommand (274-300) and
\* handleSQLCommand (449-594)
EnterLine ==
    /\ LineKeyTaken
    /\ terminal' =
           IF isComplete(terminal)
           THEN [handleSQLCommand(terminal,
                                  commandKind(cleanInput(trim(terminal.currentInput))),
                                  cleanInput(trim(terminal.currentInput)))
                 EXCEPT !.entered = terminal.currentInput, !.events = @ + 1,
                        !.sent = terminal.typed, !.sentContinued = terminal.continued,
                        !.typed = "", !.continued = FALSE]
           ELSE IF trim(terminal.currentInput) # ""
           THEN [terminal EXCEPT
                    !.currentInput = @ \o "\n" \o NumStr(terminal.currentLineNumber + 1) \o ") ",
                    !.currentLineNumber = @ + 1,
                    !.typed = @ \o "\n", !.continued = TRUE,
                    !.entered = terminal.currentInput, !.events = @ + 1]
           ELSE [terminal EXCEPT !.entered = terminal.currentInput, !.events = @ + 1]
    /\ UNCHANGED <<executorVars, display>>

NextLines == TypeLine \/ ShiftEnter \/ EnterLine

SpecLines == InitLines /\ [][NextLines]_vars

\* C37: the query of a command with a line begun by Enter that is sent to
\* POST /api/sql/execute is the text the user typed, line by line, without
\* the numbers Enter inserted (white space around the whole text aside).
C37_QueryIsTypedText ==
    (terminal.waiting /\ terminal.command = "sql" /\ terminal.sentContinued) =>
        terminal.query = trim(terminal.sent)

(***************************************************************************)
(* The /ai command of SpecTerminal inside its session: authState and       *)
(* authStep of the terminal (src/unnamed/part_000:62-67) beside the        *)
(* command, whose requests carry the authState.username the command was    *)
(* started with (terminal.username).  While the input area is rendered the *)
(* user can submit exit.                                                   *)
(***************************************************************************)
Connected(u) ==
    [at |-> "prompt", username |-> u, result |-> CHOOSE r \in AgentResponses : ~r.success,
     query |-> "", retryCount |-> 0, posted |-> <<>>, unanswered |-> FALSE,
     requests |-> <<>>, isAuthenticated |-> TRUE, authUsername |-> u, authStep |-> "password"]

InitSession ==
    /\ pc = "idle"
    /\ call = NoCall
    /\ session = DefaultSession
    /\ db \in InitialDatabases
    /\ tdb = db
    /\ dbBefore = db
    /\ dbLog = <<>>
    /\ result = NoResult
    /\ info = NoInfo
    /\ display = <<addLine("output", "Generating SQL for: \"show t\""), addLine("output", ""),
                    loaderLine("Generating SQL...")>>
    /\ \E u \in Tenants : terminal = Connected(u)

\* handleKeyDown, Enter on the input exit (part_000:169-173), handleCommand
\* (274-300) and the branch of handleSQLCommand for exit and quit (536-547);
\* null is written "".  No key is handled between the answer of a generator
\* and the request that follows it in the same continuation.
SubmitExit ==
    /\ terminal.isAuthenticated
    /\ PromptShown(display, FALSE, FALSE)
    /\ ~(terminal.at = "execute" /\ pc = "idle")
    /\ terminal' = [terminal EXCEPT !.isAuthenticated = FALSE, !.authUsername = "",
                                    !.authStep = "ask"]
    /\ display' = display \o <<addLine("input", "SQL> exit")>> \o commandLines("exit", "exit")
    /\ UNCHANGED executorVars

NextSession ==
    \/ AgentAnswers
    \/ FallbackAnswers
    \/ RetryAnswers
    \/ PostExecute
    \/ CreateSchema
    \/ CreateSchemaFails
    \/ StatementSucceeds
    \/ StatementFails
    \/ RequestFails
    \/ Commit
    \/ ShowResult
    \/ FetchFails
    \/ SubmitExit

SpecSession == InitSession /\ [][NextSession]_vars

\* the step sends a request: the query to /api/sql/execute, or the prompt
\* to /api/ai/generate-sql for the fallback or for a retry
SendsRequest ==
    \/ PostExecute
    \/ terminal'.at \in {"fallback", "retry"} /\ terminal'.at # terminal.at

\* C38: a request is sent only while the session is authenticated and with
\* the user name of the session; a session that is not authenticated has
\* user name null and auth step 'ask'.
C38_RequestsOnlyWhileAuthenticated ==
    /\ [][SendsRequest =>
              terminal.isAuthenticated /\ terminal.username = terminal.authUsername]_vars
    /\ [](~terminal.isAuthenticated =>
              terminal.authUsername = "" /\ terminal.authStep = "ask")
====
